---- MODULE Spec2Model ----
(***************************************************************************)
(* Grid simulations and time-indexed search of the puzzle archive:         *)
(*   - solutions/year_2022/day_24.py  (blizzard valley, Valley.traverse)   *)
(*   - src/aoc/year_2021/day_11.py    (octopus cascade, OctopusGrid.step)  *)
(* Every program is a state machine of its own (SpecValley, SpecOctopus);  *)
(* the variables of the programs that a specification does not run keep    *)
(* their idle values.                                                      *)
(***************************************************************************)
EXTENDS Integers, Sequences, FiniteSets, TLC

VARIABLES
    \* ---- day_24.py ----
    v_part,           \* which entry point runs: "part_one" or "part_two"
    input_lines,      \* the text handed to part_one / part_two
    valley,           \* Valley fields width, height, entrance, exit, _grid
    blizzards,        \* Valley.blizzards: list of Blizzard(direction, position)
    leg,              \* index of the leg of `legs` being travelled (1-based)
    pt_time,          \* local `time` of part_one / part_two
    v_pc,             \* "call", "bfs", "ret", "done", "error"
    queue,            \* traverse: deque of Position
    time,             \* traverse: local `time`
    position,         \* traverse: local `position` (last popped); <<>> while unbound
    blizzard_states,  \* traverse: the table returned by _get_all_blizzard_states
    retval,           \* value returned by the last traverse call
    v_result,         \* value returned by part_one / part_two
    \* ---- day_11.py ----
    o_part,           \* "part_one" or "part_two"
    o_input,          \* initial_state: list of rows of energy levels
    energy_level,     \* Octopus.energy_level, per (x, y)
    flashed,          \* Octopus.flashed, per (x, y)
    n_flashes,        \* Octopus.n_flashes, per (x, y)
    o_pc,             \* "idle", "pass", "reset", "done"
    pass_k,           \* step: index of the next octopus of the for loop of a pass
    call_stack,       \* the running calls of Octopus.flash: octopus o, at neighbour i
    step_n_flashes,   \* step: local n_flashes (number of flashed octopuses)
    n_flashes_changed,\* step: local n_flashes_changed
    passes,           \* step: number of completed passes of the while loop
    flashes_before,   \* Octopus.n_flashes as it was when the step began
    energy_before,    \* Octopus.energy_level as it was when the step began
    n_simulations,    \* part_two: n_simulations; part_one: steps simulated
    found,            \* part_two: found
    o_result,         \* value returned by part_one / part_two
    \* ---- day_14.py ----
    c_part,           \* "part_one", "part_two", or "fall" for a lone Grain.fall
    c_input,          \* input_lines: the points of every line, as <<x, y>>
    c_grid,           \* Cave.grid: shape and the cells holding rock (1) and sand (2)
    c_source,         \* Cave.source_position
    c_ticks,          \* Cave.ticks
    c_ticks_before,   \* Cave.ticks as it was when the last tick() was called
    c_pc,             \* "loop", "overflow", "done", "error"; "falling", "rest"
    c_last,           \* what the last tick() returned: "none", "True", "False"
    c_grain,          \* (x, y) of the last Grain, <<>> before the first
    c_prev,           \* Grain.fall: (x, y) before the last move, <<>> before the first
    c_extra,          \* number of calls of tick() after one that returned True
    c_result,         \* value returned by part_one / part_two
    \* ---- day_23.py ----
    g_part,           \* "part_one", "part_two", or "simulate" for a lone simulate(rounds)
    g_input,          \* input_lines, as rows of characters
    g_elves,          \* Ground.elves: position, considered_position, consideration_order, _elves_at
    g_cache,          \* the lru_cache of get_elf_at_position: position -> answer
    g_rounds,         \* simulate: the parameter rounds
    g_next,           \* simulate: the next value of range(rounds)
    g_round,          \* simulate: the local `round`, <<>> while unbound
    g_moved,          \* simulate: the local `moved` of the last second half
    g_history,        \* any(moved) of every round run so far
    g_pc,             \* "for", "second", "return", "ret", "done", "error"
    g_retval,         \* value returned by simulate
    g_result,         \* value returned by part_one / part_two
    \* ---- day_18.py ----
    l_input,          \* input_lines, as the <<x, y, z>> of every line
    l_grid,           \* Lava._grid: shape and the cells that hold LAVA
    l_cursor,         \* contact_surface: cells of np.ndindex(grid.shape) done
    l_total,          \* contact_surface: the local `total`
    l_pc,             \* "count", "done"
    l_result,         \* value returned by part_one
    \* ---- day_25.py ----
    s_input,          \* input_lines, each line a sequence of characters
    s_total,          \* part_one: the local `total`
    s_base5,          \* SNAFU.encode: base_5_numbers
    s_index,          \* SNAFU.encode: index of the loop
    s_snafu,          \* SNAFU.encode: the list `snafu`
    s_pc,             \* "decode", "encode", "done"
    s_result,         \* value returned by part_one
    \* ---- day_9.py ----
    h_input,          \* height_map
    low_points,       \* detect_basins: low_points, each cell as <<x, y>>
    basins,           \* detect_basins: the values of `basins`, in the order of its keys
    h_k,              \* detect_basins: index of the current item of basins.items()
    size_changed,     \* detect_basins: size_changed
    basin_size,       \* detect_basins: basin_size
    h_i,              \* detect_basins: index of `for point in basin`
    h_pc,             \* "items", "while", "for", "done"
    h_result,         \* value returned by detect_basins
    \* ---- day_6.py ----
    lab_input,            \* Lab.input_lines
    additional_obstacles, \* simulate_guard: additional_obstacles
    guard,                \* Lab.guard: x, y, direction, path
    lab_pc,               \* "loop", "done"
    lab_result            \* value returned by simulate_guard

vars24 == <<v_part, input_lines, valley, blizzards, leg, pt_time, v_pc, queue,
            time, position, blizzard_states, retval, v_result>>
vars11 == <<o_part, o_input, energy_level, flashed, n_flashes, o_pc, pass_k,
            call_stack, step_n_flashes, n_flashes_changed, passes, flashes_before,
            energy_before,
            n_simulations, found, o_result>>
vars14 == <<c_part, c_input, c_grid, c_source, c_ticks, c_ticks_before, c_pc,
            c_last, c_grain, c_prev, c_extra, c_result>>
vars23 == <<g_part, g_input, g_elves, g_cache, g_rounds, g_next, g_round, g_moved,
            g_history, g_pc, g_retval, g_result>>
vars18 == <<l_input, l_grid, l_cursor, l_total, l_pc, l_result>>
vars25 == <<s_input, s_total, s_base5, s_index, s_snafu, s_pc, s_result>>
vars9 == <<h_input, low_points, basins, h_k, size_changed, basin_size, h_i, h_pc,
          h_result>>
vars6 == <<lab_input, additional_obstacles, guard, lab_pc, lab_result>>
vars == <<vars24, vars11, vars14, vars23, vars18, vars25, vars9, vars6>>

\* the variables a program leaves alone
others24 == <<vars11, vars14, vars23, vars18, vars25, vars9, vars6>>
others11 == <<vars24, vars14, vars23, vars18, vars25, vars9, vars6>>
others14 == <<vars24, vars11, vars23, vars18, vars25, vars9, vars6>>
others23 == <<vars24, vars11, vars14, vars18, vars25, vars9, vars6>>
others18 == <<vars24, vars11, vars14, vars23, vars25, vars9, vars6>>
others25 == <<vars24, vars11, vars14, vars23, vars18, vars9, vars6>>
others9 == <<vars24, vars11, vars14, vars23, vars18, vars25, vars6>>
others6 == <<vars24, vars11, vars14, vars23, vars18, vars25, vars9>>

(***************************************************************************)
(* Bounds of the explored inputs.                                          *)
(***************************************************************************)
MaxInnerWidth == 2
MaxInnerHeight == 2
MaxBlizzards == 2

(***************************************************************************)
(* day_24.py: tiles, positions, directions                                 *)
(***************************************************************************)
EMPTY == 0
BLIZZARD == 1
TEAM == 2
WALL == 8

Position(px, py) == [x |-> px, y |-> py]

Direction ==
    [LEFT |-> Position(-1, 0), TOP |-> Position(0, -1), RIGHT |-> Position(1, 0),
     BOTTOM |-> Position(0, 1), STAY |-> Position(0, 0)]

\* iteration order of `for direction in Direction`
DirectionOrder == <<"LEFT", "TOP", "RIGHT", "BOTTOM", "STAY">>

\* numpy arrays are lists of rows; index -n .. n-1 is accepted on an axis of
\* length n, a negative index counts from the end, anything else raises
Shape0(on) == Len(on)
Shape1(on) == Len(on[1])
IndexOK(on, iy, ix) ==
    /\ -Shape0(on) <= iy /\ iy < Shape0(on)
    /\ -Shape1(on) <= ix /\ ix < Shape1(on)
NormIndex(n, i) == IF i < 0 THEN i + n ELSE i
At(on, iy, ix) == on[NormIndex(Shape0(on), iy) + 1][NormIndex(Shape1(on), ix) + 1]
SetAt(on, iy, ix, tile) ==
    [on EXCEPT ![NormIndex(Shape0(on), iy) + 1][NormIndex(Shape1(on), ix) + 1] = tile]

RECURSIVE Gcd(_, _)
Gcd(a, b) == IF b = 0 THEN a ELSE Gcd(b, a % b)
Lcm(a, b) == (a * b) \div Gcd(a, b)

\* Position.is_valid
IsValid(p, on) ==
    IF p.x < 0 \/ p.x >= Shape1(on) \/ p.y < 0 \/ p.y >= Shape0(on)
    THEN FALSE
    ELSE At(on, p.y, p.x) = EMPTY

(***************************************************************************)
(* Valley.__init__ and Valley.from_text                                    *)
(***************************************************************************)
\* np.pad(np.zeros((height - 2, width - 2)), (1,), constant_values=WALL),
\* then the entrance and the exit are cleared
ValleyGrid(width, height, entrance, exit) ==
    LET padded == [r \in 1..height |-> [c \in 1..width |->
                      IF r = 1 \/ r = height \/ c = 1 \/ c = width
                      THEN WALL ELSE EMPTY]]
        cleared == SetAt(padded, entrance.y, entrance.x, EMPTY)
    IN  SetAt(cleared, exit.y, exit.x, EMPTY)

\* str.index("."): 0-based index of the first "."
IndexOfDot(line) ==
    CHOOSE i \in 0..(Len(line) - 1) :
        /\ line[i + 1] = "."
        /\ \A j \in 0..(i - 1) : line[j + 1] # "."

CharDirection(c) ==
    CASE c = "<" -> "LEFT"
      [] c = ">" -> "RIGHT"
      [] c = "^" -> "TOP"
      [] c = "v" -> "BOTTOM"
      [] OTHER -> "None"

\* the blizzards of the interior, row by row; k counts the interior cells
RECURSIVE ParseBlizzards(_, _)
ParseBlizzards(lines, k) ==
    LET iw == Len(lines[1]) - 2
        ih == Len(lines) - 2
        py == 1 + (k \div iw)
        px == 1 + (k % iw)
        character == lines[py + 1][px + 1]
    IN  IF k >= iw * ih THEN <<>>
        ELSE IF character = "." THEN ParseBlizzards(lines, k + 1)
        ELSE <<[direction |-> CharDirection(character), position |-> Position(px, py)]>>
             \o ParseBlizzards(lines, k + 1)

FromText(lines) ==
    LET width == Len(lines[1])
        height == Len(lines)
        entrance == Position(IndexOfDot(lines[1]), 0)
        exit == Position(IndexOfDot(lines[height]), height - 1)
    IN  [valley |-> [width |-> width, height |-> height, entrance |-> entrance,
                     exit |-> exit,
                     grid |-> ValleyGrid(width, height, entrance, exit)],
         blizzards |-> ParseBlizzards(lines, 0)]

(***************************************************************************)
(* Valley.plot_on_grid, Blizzard.move, Valley._get_all_blizzard_states     *)
(***************************************************************************)
RECURSIVE PlotFrom(_, _, _)
PlotFrom(grid, bl, i) ==
    IF i > Len(bl) THEN grid
    ELSE PlotFrom(SetAt(grid, bl[i].position.y, bl[i].position.x, BLIZZARD), bl, i + 1)

PlotOnGrid(grid, bl) == PlotFrom(grid, bl, 1)

\* Blizzard.move wrapping a blizzard that travels left onto the wall column
Move_WrapOntoWall(b, on) ==
    LET d == Direction[b.direction]
        next_position == Position(b.position.x + d.x, b.position.y + d.y)
    IN  IF ~IndexOK(on, next_position.y, next_position.x)
        THEN [err |-> TRUE, blizzard |-> b]
        ELSE IF At(on, next_position.y, next_position.x) = WALL
        THEN [err |-> FALSE, blizzard |-> [b EXCEPT !.position =
               CASE b.direction = "LEFT" -> Position(Shape1(on) - 1, b.position.y)
                 [] b.direction = "RIGHT" -> Position(1, b.position.y)
                 [] b.direction = "TOP" -> Position(b.position.x, Shape0(on) - 2)
                 [] b.direction = "BOTTOM" -> Position(b.position.x, 1)
                 [] OTHER -> next_position]]
        ELSE [err |-> FALSE, blizzard |-> [b EXCEPT !.position = next_position]]

\* Blizzard.move: the blizzard after the move; err is the IndexError of
\* on[next_position.y, next_position.x] outside the array
Move(b, on) ==
    LET d == Direction[b.direction]
        next_position == Position(b.position.x + d.x, b.position.y + d.y)
    IN  IF ~IndexOK(on, next_position.y, next_position.x)
        THEN [err |-> TRUE, blizzard |-> b]
        ELSE IF At(on, next_position.y, next_position.x) = WALL
        THEN [err |-> FALSE, blizzard |-> [b EXCEPT !.position =
               CASE b.direction = "LEFT" -> Position(Shape1(on) - 2, b.position.y)
                 [] b.direction = "RIGHT" -> Position(1, b.position.y)
                 [] b.direction = "TOP" -> Position(b.position.x, Shape0(on) - 2)
                 [] b.direction = "BOTTOM" -> Position(b.position.x, 1)
                 [] OTHER -> next_position]]
        ELSE [err |-> FALSE, blizzard |-> [b EXCEPT !.position = next_position]]

\* for blizzard in self.blizzards: blizzard.move(on=...); stops at the first
\* blizzard that raises, the earlier ones stay moved
RECURSIVE MoveAll(_, _, _)
MoveAll(bl, on, i) ==
    IF i > Len(bl) THEN [blizzards |-> bl, err |-> FALSE]
    ELSE LET m == Move(bl[i], on)
         IN  IF m.err THEN [blizzards |-> bl, err |-> TRUE]
             ELSE MoveAll([bl EXCEPT ![i] = m.blizzard], on, i + 1)

NStates(width, height) == Lcm(width - 2, height - 2) - 1

RECURSIVE BuildStates(_, _, _, _, _)
BuildStates(grid, states, bl, state, n_states) ==
    IF state > n_states THEN [states |-> states, blizzards |-> bl, err |-> FALSE]
    ELSE LET m == MoveAll(bl, states[state - 1], 1)
         IN  IF m.err THEN [states |-> states, blizzards |-> m.blizzards, err |-> TRUE]
             ELSE BuildStates(grid, states @@ (state :> PlotOnGrid(grid, m.blizzards)),
                              m.blizzards, state + 1, n_states)

GetAllBlizzardStates(v, bl) ==
    BuildStates(v.grid, (0 :> PlotOnGrid(v.grid, bl)), bl, 1, NStates(v.width, v.height))

(***************************************************************************)
(* Valley.traverse                                                         *)
(***************************************************************************)
\* the `legs` of part_two; part_one travels the first one only
Legs(part, v) ==
    IF part = "part_one"
    THEN <<[start |-> v.entrance, finish |-> v.exit]>>
    ELSE <<[start |-> v.entrance, finish |-> v.exit],
           [start |-> v.exit, finish |-> v.entrance],
           [start |-> v.entrance, finish |-> v.exit]>>

\* len(blizzard_states.keys())
LenStates(states) == Cardinality(DOMAIN states)

Neighbour(p, i) ==
    Position(p.x + Direction[DirectionOrder[i]].x, p.y + Direction[DirectionOrder[i]].y)

\* the filter looking at the pattern of the current time, not of the next
ValidNeighbour_CurrentPattern(nb, v, states, t) ==
    /\ 0 <= nb.x /\ nb.x < v.width
    /\ 0 <= nb.y /\ nb.y < v.height
    /\ At(states[(t - 1) % LenStates(states)], nb.y, nb.x) = EMPTY

\* the filter of lines 170-177
ValidNeighbour(nb, v, states, t) ==
    /\ 0 <= nb.x /\ nb.x < v.width
    /\ 0 <= nb.y /\ nb.y < v.height
    /\ At(states[t % LenStates(states)], nb.y, nb.x) = EMPTY

\* lines 160-183 for one popped position: the valid neighbours not yet seen
\* are appended in the order of Direction
RECURSIVE AddNeighbours(_, _, _, _, _, _)
AddNeighbours(acc, p, i, v, states, t) ==
    IF i > Len(DirectionOrder) THEN acc
    ELSE LET nb == Neighbour(p, i)
         IN  IF ValidNeighbour(nb, v, states, t) /\ nb \notin acc.seen
             THEN AddNeighbours([acc EXCEPT !.seen = @ \cup {nb}, !.queue = Append(@, nb)],
                                p, i + 1, v, states, t)
             ELSE AddNeighbours(acc, p, i + 1, v, states, t)

\* lines 152-183: `for _ in range(len(queue))`, n iterations left
RECURSIVE Level(_, _, _, _, _, _)
Level(acc, n, finish, v, states, t) ==
    IF n = 0 THEN acc
    ELSE LET popped == Head(acc.queue)
             rest == [acc EXCEPT !.queue = Tail(@), !.position = <<popped>>]
         IN  IF popped = finish THEN [rest EXCEPT !.found = TRUE]
             ELSE Level(AddNeighbours(rest, popped, 1, v, states, t),
                        n - 1, finish, v, states, t)

\* the spec's bound of a search: period x number of cells
SearchBound(v) == Lcm(v.width - 2, v.height - 2) * v.width * v.height

\* lines 134-144: the call, up to the first test of `while queue`
Traverse ==
    /\ v_pc = "call"
    /\ LET r == GetAllBlizzardStates(valley, blizzards)
       IN  /\ blizzards' = r.blizzards
           /\ IF r.err
              THEN /\ v_pc' = "error"
                   /\ UNCHANGED <<queue, time, position, blizzard_states>>
              ELSE /\ v_pc' = "bfs"
                   /\ queue' = <<Legs(v_part, valley)[leg].start>>
                   /\ time' = pt_time
                   /\ position' = <<>>
                   /\ blizzard_states' = r.states
    /\ UNCHANGED <<v_part, input_lines, valley, leg, pt_time, retval, v_result>>
    /\ UNCHANGED others24

\* lines 147-183: one iteration of `while queue`
BFSLevel ==
    /\ v_pc = "bfs"
    /\ queue # <<>>
    /\ time - pt_time <= SearchBound(valley)
    /\ LET r == Level([queue |-> queue, seen |-> {}, position |-> position, found |-> FALSE],
                      Len(queue), Legs(v_part, valley)[leg].finish, valley,
                      blizzard_states, time + 1)
       IN  /\ time' = time + 1
           /\ queue' = r.queue
           /\ position' = r.position
           /\ IF r.found
              THEN v_pc' = "ret" /\ retval' = (time + 1) - 1
              ELSE v_pc' = "bfs" /\ UNCHANGED retval
    /\ UNCHANGED <<v_part, input_lines, valley, blizzards, leg, pt_time,
                   blizzard_states, v_result>>
    /\ UNCHANGED others24

\* lines 147 and 186: the queue ran empty
TraverseExhausted ==
    /\ v_pc = "bfs"
    /\ queue = <<>>
    /\ v_pc' = "ret"
    /\ retval' = time
    /\ UNCHANGED <<v_part, input_lines, valley, blizzards, leg, pt_time, queue,
                   time, position, blizzard_states, v_result>>
    /\ UNCHANGED others24

(***************************************************************************)
(* part_one, part_two                                                      *)
(***************************************************************************)
\* part_two line 372: time = valley.traverse(...), and on to the next leg
NextLeg ==
    /\ v_pc = "ret"
    /\ leg < Len(Legs(v_part, valley))
    /\ pt_time' = retval
    /\ leg' = leg + 1
    /\ v_pc' = "call"
    /\ UNCHANGED <<v_part, input_lines, valley, blizzards, queue, time, position,
                   blizzard_states, retval, v_result>>
    /\ UNCHANGED others24

PartOneResult(t) == t

\* part_two line 375
PartTwoResult(t, legs) == t - (Len(legs) - 1)

\* part_one lines 355-356, part_two lines 372-375 after the last leg
PartReturn ==
    /\ v_pc = "ret"
    /\ leg = Len(Legs(v_part, valley))
    /\ pt_time' = retval
    /\ v_result' = IF v_part = "part_one" THEN PartOneResult(retval)
                   ELSE PartTwoResult(retval, Legs(v_part, valley))
    /\ v_pc' = "done"
    /\ UNCHANGED <<v_part, input_lines, valley, blizzards, leg, queue, time,
                   position, blizzard_states, retval>>
    /\ UNCHANGED others24

(***************************************************************************)
(* Inputs of day_24.py                                                     *)
(***************************************************************************)
CanonicalValley ==
    << <<"#", ".", "#", "#", "#", "#", "#", "#">>,
       <<"#", ">", ">", ".", "<", "^", "<", "#">>,
       <<"#", ".", "<", ".", ".", "<", "<", "#">>,
       <<"#", ">", "v", ".", ">", "<", ">", "#">>,
       <<"#", "<", "^", "v", "^", "^", ">", "#">>,
       <<"#", "#", "#", "#", "#", "#", ".", "#">> >>

\* a walled text of iw x ih interior cells, entrance in column e of the first
\* line, exit in column x of the last, the cells of DOMAIN f holding f[cell]
TextLines(iw, ih, e, x, f) ==
    [r \in 1..(ih + 2) |-> [c \in 1..(iw + 2) |->
        IF r = 1 THEN (IF c - 1 = e THEN "." ELSE "#")
        ELSE IF r = ih + 2 THEN (IF c - 1 = x THEN "." ELSE "#")
        ELSE IF c = 1 \/ c = iw + 2 THEN "#"
        ELSE IF <<c - 1, r - 1>> \in DOMAIN f THEN f[<<c - 1, r - 1>>]
        ELSE "."]]

\* the canonical valley and every valley of at most MaxInnerWidth x
\* MaxInnerHeight interior cells and MaxBlizzards blizzards, the entrance above
\* the first interior column and the exit below the last, as in the puzzle
ValleyInputs ==
    {CanonicalValley} \cup
    UNION { UNION {
        { TextLines(d[1], d[2], 1, d[1], f) : f \in [S -> {"<", ">", "^", "v"}] } :
        S \in {T \in SUBSET ((1..d[1]) \X (1..d[2])) : Cardinality(T) <= MaxBlizzards} } :
        d \in (1..MaxInnerWidth) \X (1..MaxInnerHeight) }

Idle24 ==
    /\ v_part = "none" /\ input_lines = <<>> /\ valley = <<>> /\ blizzards = <<>>
    /\ leg = 0 /\ pt_time = 0 /\ v_pc = "idle" /\ queue = <<>> /\ time = 0
    /\ position = <<>> /\ blizzard_states = <<>> /\ retval = 0 /\ v_result = 0

Idle11 ==
    /\ o_part = "none" /\ o_input = <<>> /\ energy_level = <<>> /\ flashed = <<>>
    /\ n_flashes = <<>> /\ o_pc = "idle" /\ pass_k = 0 /\ call_stack = <<>>
    /\ step_n_flashes = 0
    /\ n_flashes_changed = FALSE /\ passes = 0 /\ flashes_before = <<>>
    /\ energy_before = <<>>
    /\ n_simulations = 0 /\ found = FALSE /\ o_result = 0

Idle14 ==
    /\ c_part = "none" /\ c_input = <<>> /\ c_grid = <<>> /\ c_source = <<>>
    /\ c_ticks = 0 /\ c_ticks_before = 0 /\ c_pc = "idle" /\ c_last = "none"
    /\ c_grain = <<>> /\ c_prev = <<>> /\ c_extra = 0 /\ c_result = 0

Idle23 ==
    /\ g_part = "none" /\ g_input = <<>> /\ g_elves = <<>> /\ g_cache = <<>>
    /\ g_rounds = 0 /\ g_next = 0 /\ g_round = <<>> /\ g_moved = <<>>
    /\ g_history = <<>> /\ g_pc = "idle" /\ g_retval = 0 /\ g_result = 0

Idle18 ==
    /\ l_input = <<>> /\ l_grid = <<>> /\ l_cursor = 0 /\ l_total = 0
    /\ l_pc = "idle" /\ l_result = 0

Idle25 ==
    /\ s_input = <<>> /\ s_total = 0 /\ s_base5 = <<>> /\ s_index = 0
    /\ s_snafu = <<>> /\ s_pc = "idle" /\ s_result = <<>>

Idle9 ==
    /\ h_input = <<>> /\ low_points = <<>> /\ basins = <<>> /\ h_k = 0
    /\ size_changed = FALSE /\ basin_size = 0 /\ h_i = 0 /\ h_pc = "idle"
    /\ h_result = <<>>

Idle6 ==
    /\ lab_input = <<>> /\ additional_obstacles = <<>> /\ guard = <<>>
    /\ lab_pc = "idle" /\ lab_result = "none"

\* part_one / part_two line 352 / 362 and `time = 0`
InitValley ==
    /\ v_part \in {"part_one", "part_two"}
    /\ input_lines \in ValleyInputs
    /\ valley = FromText(input_lines).valley
    /\ blizzards = FromText(input_lines).blizzards
    /\ leg = 1
    /\ pt_time = 0
    /\ v_pc = "call"
    /\ queue = <<>>
    /\ time = 0
    /\ position = <<>>
    /\ blizzard_states = <<>>
    /\ retval = 0
    /\ v_result = 0
    /\ Idle11 /\ Idle14 /\ Idle23 /\ Idle18 /\ Idle25 /\ Idle9 /\ Idle6

NextValley == Traverse \/ BFSLevel \/ TraverseExhausted \/ NextLeg \/ PartReturn

SpecValley == InitValley /\ [][NextValley]_vars

(***************************************************************************)
(* Properties of day_24.py                                                 *)
(***************************************************************************)
Parsed == FromText(input_lines)
CurrentLeg == Legs(v_part, valley)[leg]
Period == Lcm(valley.width - 2, valley.height - 2)

\* cityblock(a, b), as in distance_to_entrance / distance_to_exit
Manhattan(a, b) ==
    (IF a.x >= b.x THEN a.x - b.x ELSE b.x - a.x)
    + (IF a.y >= b.y THEN a.y - b.y ELSE b.y - a.y)

\* every blizzard moved k times from bl, each time on the plot of the
\* configuration before the move
RECURSIVE MovedTimes(_, _, _)
MovedTimes(grid, bl, k) ==
    IF k = 0 THEN [blizzards |-> bl, err |-> FALSE]
    ELSE LET m == MovedTimes(grid, bl, k - 1)
         IN  IF m.err THEN m
             ELSE MoveAll(m.blizzards, PlotOnGrid(grid, m.blizzards), 1)

\* the blizzard pattern of time k of the parsed valley; <<>> when a blizzard
\* has left the array before time k
PatternAt(k) ==
    LET m == MovedTimes(valley.grid, Parsed.blizzards, k)
    IN  IF m.err THEN <<>> ELSE PlotOnGrid(valley.grid, m.blizzards)

\* the cells an agent on one of `cur` may occupy after one move on `pattern`
LegalMoves(cur, pattern) ==
    IF pattern = <<>> THEN {}
    ELSE {nb \in {Neighbour(p, i) : p \in cur, i \in 1..Len(DirectionOrder)} :
             IsValid(nb, pattern)}

\* TRUE iff T is the smallest number of legal moves after which an agent that
\* occupies one of `cur` at time i can stand on finish
RECURSIVE FirstReachedAt(_, _, _, _)
FirstReachedAt(cur, i, T, finish) ==
    IF finish \in cur THEN i = T
    ELSE IF i >= T THEN FALSE
    ELSE FirstReachedAt(LegalMoves(cur, PatternAt(i + 1)), i + 1, T, finish)

\* C1: the first traverse of a freshly parsed valley returns the minimum legal
\* travel time: at least the Manhattan distance, reached by a legal sequence
\* of that many moves on the patterns of times 1..T, and by no shorter one
C1_TraverseReturnsMinimum ==
    (v_pc = "ret" /\ leg = 1) =>
        /\ retval >= Manhattan(CurrentLeg.start, CurrentLeg.finish)
        /\ FirstReachedAt({CurrentLeg.start}, 0, retval, CurrentLeg.finish)

\* C3: traverse ends for every valley: it returns only after it popped
\* finish, and it never searches beyond the bound period x cells
C3_TraverseEnds ==
    /\ v_pc = "ret" => position = <<CurrentLeg.finish>>
    /\ v_pc = "bfs" => time - pt_time <= SearchBound(valley)

\* no blizzard travels vertically in the entrance or exit column
NoVerticalInDoorColumns ==
    \A i \in 1..Len(Parsed.blizzards) :
        Parsed.blizzards[i].direction \in {"TOP", "BOTTOM"} =>
            /\ Parsed.blizzards[i].position.x # valley.entrance.x
            /\ Parsed.blizzards[i].position.x # valley.exit.x

\* C2: in part_two every leg starts at the arrival time of the previous leg
\* and looks up, at every time, the blizzard pattern of that time; the total
\* is the arrival time of the last leg, with nothing subtracted.  Stated on
\* the valleys without vertical blizzards in the entrance and exit columns,
\* whose patterns repeat with the period of the table.
C2_LegsAtTrueTime ==
    (v_part = "part_two" /\ NoVerticalInDoorColumns) =>
        /\ v_pc = "bfs" =>
              /\ time >= pt_time
              /\ blizzard_states[time % LenStates(blizzard_states)] = PatternAt(time)
        /\ v_pc = "done" => v_result = pt_time

\* the position of a blizzard after k moves on a torus of the interior
TorusPosition(b, k) ==
    LET iw == valley.width - 2
        ih == valley.height - 2
        d == Direction[b.direction]
    IN  Position(1 + ((b.position.x - 1 + k * d.x) % iw),
                 1 + ((b.position.y - 1 + k * d.y) % ih))

TorusPattern(k) ==
    PlotOnGrid(valley.grid,
               [i \in 1..Len(Parsed.blizzards) |->
                   [Parsed.blizzards[i] EXCEPT !.position = TorusPosition(Parsed.blizzards[i], k)]])

\* C4: without vertical blizzards in the entrance and exit columns the table
\* that the first call has just built has exactly lcm(width-2, height-2) entries, entry k is
\* the parsed configuration moved k times, one more move from the last entry
\* gives entry 0, and the pattern of time t is the pattern of time t + P
C4_TablePeriodic ==
    (leg = 1 /\ v_pc = "bfs" /\ position = <<>> /\ NoVerticalInDoorColumns) =>
        /\ DOMAIN blizzard_states = 0..(Period - 1)
        /\ \A k \in 0..(Period - 1) :
              /\ blizzard_states[k] = PatternAt(k)
              /\ blizzard_states[k] = TorusPattern(k)
              /\ PatternAt(k + Period) = blizzard_states[k]
        /\ LET m == MoveAll(blizzards, blizzard_states[Period - 1], 1)
           IN  ~m.err /\ PlotOnGrid(valley.grid, m.blizzards) = blizzard_states[0]

C4_Witness ==
    /\ leg = 1 /\ v_pc = "bfs" /\ position = <<>> /\ NoVerticalInDoorColumns
    /\ Period = 12
    /\ \E i \in 1..Len(blizzards) : blizzards[i].direction \in {"LEFT", "RIGHT"}
    /\ \E i \in 1..Len(blizzards) : blizzards[i].direction \in {"TOP", "BOTTOM"}
    /\ blizzards # Parsed.blizzards

\* C5: when the first call of traverse has returned, every blizzard is where
\* it was before the call
C5_TraverseLeavesValley ==
    (v_pc = "ret" /\ leg = 1) => blizzards = Parsed.blizzards

\* C6: on the canonical valley part_one returns 18 and part_two returns 54
C6_CanonicalValley ==
    (input_lines = CanonicalValley /\ v_pc = "done") =>
        v_result = (IF v_part = "part_one" THEN 18 ELSE 54)

C6_Witness ==
    /\ input_lines = CanonicalValley /\ v_pc = "done" /\ v_part = "part_two"
    /\ leg = 3 /\ Len(blizzards) = 19 /\ v_result = 54

\* C20: after every level of the search each position of the queue is inside
\* the grid and EMPTY in the pattern of the level's time, and a position of
\* the level before stays in the queue exactly when it is EMPTY in that
\* pattern.  Stated on the valleys without vertical blizzards in the entrance
\* and exit columns.
C20_QueueOnOpenCells ==
    [][(v_pc = "bfs" /\ v_pc' = "bfs" /\ NoVerticalInDoorColumns) =>
          /\ \A i \in 1..Len(queue') : IsValid(queue'[i], PatternAt(time'))
          /\ \A i \in 1..Len(queue) :
                (\E j \in 1..Len(queue') : queue'[j] = queue[i])
                    <=> IsValid(queue[i], PatternAt(time'))]_vars

\* the cells inside the walls
Interior(p) ==
    /\ 1 <= p.x /\ p.x <= valley.width - 2
    /\ 1 <= p.y /\ p.y <= valley.height - 2

\* C21: in every pattern built by _get_all_blizzard_states each blizzard lies
\* in the interior: no move leaves the array, no cell outside the interior of
\* a pattern holds a blizzard, and the blizzards of the last pattern are on
\* interior positions
C21_BlizzardsInInterior ==
    /\ v_pc # "error"
    /\ v_pc = "bfs" =>
          /\ \A i \in 1..Len(blizzards) : Interior(blizzards[i].position)
          /\ \A k \in DOMAIN blizzard_states :
                \A py \in 0..(valley.height - 1) : \A px \in 0..(valley.width - 1) :
                    At(blizzard_states[k], py, px) = BLIZZARD => Interior(Position(px, py))

(***************************************************************************)
(* day_11.py: Octopus and OctopusGrid                                      *)
(***************************************************************************)
MaxCells == 2
MaxSimulations == 200

\* part_one: grid.simulate(100)
PartOneSteps == 100

GridHeight == Len(o_input)
GridWidth == Len(o_input[1])

\* itertools.chain.from_iterable(self.state): row by row, as <<x, y>>
Octopuses == [k \in 1..(GridWidth * GridHeight) |->
                 <<(k - 1) % GridWidth, (k - 1) \div GridWidth>>]
OctopusSet == {Octopuses[k] : k \in 1..Len(Octopuses)}

\* Octopus.get_neighbour: <<>> stands for None
GetNeighbour(nx, ny) ==
    IF nx < 0 \/ nx > GridWidth - 1 \/ ny < 0 \/ ny > GridHeight - 1
    THEN <<>>
    ELSE <<nx, ny>>

\* Octopus.all_neighbours without the four diagonal neighbours
AllNeighbours_Orthogonal(o) ==
    SelectSeq(<<GetNeighbour(o[1] - 1, o[2]), GetNeighbour(o[1] + 1, o[2]),
                GetNeighbour(o[1], o[2] - 1), GetNeighbour(o[1], o[2] + 1)>>,
              LAMBDA element : element # <<>>)

\* Octopus.all_neighbours without its last entry, bottom_right
AllNeighbours_NoBottomRight(o) ==
    SelectSeq(<<GetNeighbour(o[1] - 1, o[2]), GetNeighbour(o[1] + 1, o[2]),
                GetNeighbour(o[1], o[2] - 1), GetNeighbour(o[1], o[2] + 1),
                GetNeighbour(o[1] - 1, o[2] - 1), GetNeighbour(o[1] + 1, o[2] - 1),
                GetNeighbour(o[1] - 1, o[2] + 1)>>,
              LAMBDA element : element # <<>>)

\* Octopus.all_neighbours: left, right, top, bottom, top_left, top_right,
\* bottom_left, bottom_right, without the None entries
AllNeighbours(o) ==
    SelectSeq(<<GetNeighbour(o[1] - 1, o[2]), GetNeighbour(o[1] + 1, o[2]),
                GetNeighbour(o[1], o[2] - 1), GetNeighbour(o[1], o[2] + 1),
                GetNeighbour(o[1] - 1, o[2] - 1), GetNeighbour(o[1] + 1, o[2] - 1),
                GetNeighbour(o[1] - 1, o[2] + 1), GetNeighbour(o[1] + 1, o[2] + 1)>>,
              LAMBDA element : element # <<>>)

\* Octopus.flash lines 21-25 counting the call before it looks at the flag
FlashEnter_CountsEveryCall(fl, nf, o) ==
    IF fl[o]
    THEN [flashed |-> fl, n_flashes |-> [nf EXCEPT ![o] = @ + 1], entered |-> FALSE]
    ELSE [flashed |-> [fl EXCEPT ![o] = TRUE],
          n_flashes |-> [nf EXCEPT ![o] = @ + 1], entered |-> TRUE]

\* Octopus.flash lines 21-25: a call on a flashed octopus returns at once,
\* any other call sets the flag, counts the flash and enters the loop over
\* the neighbours
FlashEnter(fl, nf, o) ==
    IF fl[o]
    THEN [flashed |-> fl, n_flashes |-> nf, entered |-> FALSE]
    ELSE [flashed |-> [fl EXCEPT ![o] = TRUE],
          n_flashes |-> [nf EXCEPT ![o] = @ + 1], entered |-> TRUE]

\* the calls of flash that have run through all their neighbours return
RECURSIVE Unwind(_)
Unwind(stack) ==
    IF stack = <<>> THEN stack
    ELSE IF stack[Len(stack)].i > Len(AllNeighbours(stack[Len(stack)].o))
    THEN Unwind(SubSeq(stack, 1, Len(stack) - 1))
    ELSE stack

\* the pass leaving out the octopuses whose energy level is exactly 10
AboveNine_AboveTen(k) == {j \in k..Len(Octopuses) : energy_level[Octopuses[j]] > 10}

\* the octopuses from index k on whose energy level is above 9
AboveNine(k) == {j \in k..Len(Octopuses) : energy_level[Octopuses[j]] > 9}
NextAboveNine(k) == CHOOSE j \in AboveNine(k) : \A h \in AboveNine(k) : j <= h

\* len([octopus for octopus in ... if octopus.flashed])
CountFlashed(fl) == Cardinality({o \in OctopusSet : fl[o]})

\* step reporting a change as long as any octopus is flashed
FlashesChanged_AnyFlashed(old, new) == new # 0

\* step line 140
FlashesChanged(old, new) == old # new

RECURSIVE SumOver(_, _)
SumOver(f, k) == IF k = 0 THEN 0 ELSE f[Octopuses[k]] + SumOver(f, k - 1)

\* OctopusGrid.n_flashes
TotalFlashes(nf) == SumOver(nf, Len(Octopuses))

\* all([octopus.energy_level == 0 for octopus in ...])
AllZero(el) == \A o \in OctopusSet : el[o] = 0

\* step lines 118-129, entered from simulate (part_one) or from the loop of
\* part_two; the first test of `while n_flashes_changed` succeeds
StepBegin ==
    /\ o_pc = "idle"
    /\ IF o_part = "part_one" THEN n_simulations < PartOneSteps
       ELSE ~found /\ n_simulations < MaxSimulations
    /\ energy_level' = [o \in OctopusSet |-> energy_level[o] + 1]
    /\ step_n_flashes' = CountFlashed(flashed)
    /\ n_flashes_changed' = TRUE
    /\ passes' = 0
    /\ pass_k' = 1
    /\ flashes_before' = n_flashes
    /\ energy_before' = energy_level
    /\ o_pc' = "pass"
    /\ UNCHANGED <<o_part, o_input, flashed, n_flashes, call_stack, n_simulations,
                   found, o_result>>
    /\ UNCHANGED others11

\* step lines 130-132: the for loop runs on to the next octopus above 9 and
\* calls its flash()
PassNext ==
    /\ o_pc = "pass"
    /\ call_stack = <<>>
    /\ AboveNine(pass_k) # {}
    /\ LET k == NextAboveNine(pass_k)
           f == FlashEnter(flashed, n_flashes, Octopuses[k])
       IN  /\ flashed' = f.flashed
           /\ n_flashes' = f.n_flashes
           /\ call_stack' = IF f.entered
                            THEN Unwind(<<[o |-> Octopuses[k], i |-> 1]>>)
                            ELSE <<>>
           /\ pass_k' = k + 1
    /\ UNCHANGED <<o_part, o_input, energy_level, o_pc, step_n_flashes,
                   n_flashes_changed, passes, flashes_before, energy_before, n_simulations, found,
                   o_result>>
    /\ UNCHANGED others11

\* Octopus.flash lines 27-30: the innermost running flash() raises its next
\* neighbour and calls the neighbour's flash() when that is above 9
FlashStep ==
    /\ o_pc = "pass"
    /\ call_stack # <<>>
    /\ LET top == call_stack[Len(call_stack)]
           neighbour == AllNeighbours(top.o)[top.i]
           raised == [energy_level EXCEPT ![neighbour] = @ + 1]
           f == IF raised[neighbour] > 9
                THEN FlashEnter(flashed, n_flashes, neighbour)
                ELSE [flashed |-> flashed, n_flashes |-> n_flashes, entered |-> FALSE]
           advanced == [call_stack EXCEPT ![Len(call_stack)].i = @ + 1]
       IN  /\ energy_level' = raised
           /\ flashed' = f.flashed
           /\ n_flashes' = f.n_flashes
           /\ call_stack' = IF f.entered
                            THEN Unwind(Append(advanced, [o |-> neighbour, i |-> 1]))
                            ELSE Unwind(advanced)
    /\ UNCHANGED <<o_part, o_input, o_pc, step_n_flashes, n_flashes_changed, passes,
                   pass_k, flashes_before, energy_before, n_simulations, found, o_result>>
    /\ UNCHANGED others11

\* step lines 133-141 and the next test of `while n_flashes_changed`
PassEnd ==
    /\ o_pc = "pass"
    /\ call_stack = <<>>
    /\ AboveNine(pass_k) = {}
    /\ passes <= GridWidth * GridHeight + 1
    /\ LET n_flashes_new == CountFlashed(flashed)
       IN  /\ n_flashes_changed' = FlashesChanged(step_n_flashes, n_flashes_new)
           /\ step_n_flashes' = n_flashes_new
    /\ passes' = passes + 1
    /\ pass_k' = 1
    /\ o_pc' = IF n_flashes_changed' THEN "pass" ELSE "reset"
    /\ UNCHANGED <<o_part, o_input, energy_level, flashed, n_flashes, call_stack,
                   flashes_before, energy_before, n_simulations, found, o_result>>
    /\ UNCHANGED others11

\* step lines 143-146 and the return to the caller: simulate's loop and
\* `return grid.n_flashes` of part_one, lines 172-179 of part_two
StepEnd ==
    /\ o_pc = "reset"
    /\ energy_level' = [o \in OctopusSet |->
                           IF energy_level[o] > 9 THEN 0 ELSE energy_level[o]]
    /\ flashed' = [o \in OctopusSet |->
                      IF energy_level[o] > 9 THEN FALSE ELSE flashed[o]]
    /\ n_simulations' = n_simulations + 1
    /\ IF o_part = "part_one"
       THEN /\ UNCHANGED found
            /\ IF n_simulations' = PartOneSteps
               THEN o_pc' = "done" /\ o_result' = TotalFlashes(n_flashes)
               ELSE o_pc' = "idle" /\ UNCHANGED o_result
       ELSE /\ found' = AllZero(energy_level')
            /\ IF found'
               THEN o_pc' = "done" /\ o_result' = n_simulations'
               ELSE o_pc' = "idle" /\ UNCHANGED o_result
    /\ UNCHANGED <<o_part, o_input, n_flashes, step_n_flashes, n_flashes_changed,
                   passes, pass_k, call_stack, flashes_before,
                   energy_before>>
    /\ UNCHANGED others11

(***************************************************************************)
(* Inputs of day_11.py                                                     *)
(***************************************************************************)
CanonicalOctopuses ==
    << <<5, 4, 8, 3, 1, 4, 3, 2, 2, 3>>,
       <<2, 7, 4, 5, 8, 5, 4, 7, 1, 1>>,
       <<5, 2, 6, 4, 5, 5, 6, 1, 7, 3>>,
       <<6, 1, 4, 1, 3, 3, 6, 1, 4, 6>>,
       <<6, 3, 5, 7, 3, 8, 5, 4, 7, 8>>,
       <<4, 1, 6, 7, 5, 2, 4, 6, 4, 5>>,
       <<2, 1, 7, 6, 8, 4, 1, 7, 2, 1>>,
       <<6, 8, 8, 2, 8, 8, 1, 1, 3, 4>>,
       <<4, 8, 4, 6, 8, 4, 8, 5, 5, 4>>,
       <<5, 2, 8, 3, 7, 5, 1, 5, 2, 6>> >>

OctopusInputs ==
    {CanonicalOctopuses} \cup
    UNION { [1..d[2] -> [1..d[1] -> 0..9]] :
              d \in {e \in (1..MaxCells) \X (1..MaxCells) : e[1] * e[2] <= MaxCells} }

\* OctopusGrid.__init__ and Octopus.__init__
InitOctopus ==
    /\ o_part \in {"part_one", "part_two"}
    /\ o_input \in OctopusInputs
    /\ energy_level = [o \in OctopusSet |-> o_input[o[2] + 1][o[1] + 1]]
    /\ flashed = [o \in OctopusSet |-> FALSE]
    /\ n_flashes = [o \in OctopusSet |-> 0]
    /\ o_pc = "idle"
    /\ pass_k = 0
    /\ call_stack = <<>>
    /\ step_n_flashes = 0
    /\ n_flashes_changed = FALSE
    /\ passes = 0
    /\ flashes_before = [o \in OctopusSet |-> 0]
    /\ energy_before = [o \in OctopusSet |-> o_input[o[2] + 1][o[1] + 1]]
    /\ n_simulations = 0
    /\ found = FALSE
    /\ o_result = 0
    /\ Idle24 /\ Idle14 /\ Idle23 /\ Idle18 /\ Idle25 /\ Idle9 /\ Idle6

NextOctopus == StepBegin \/ PassNext \/ FlashStep \/ PassEnd \/ StepEnd

SpecOctopus == InitOctopus /\ [][NextOctopus]_vars

(***************************************************************************)
(* Properties of day_11.py                                                 *)
(***************************************************************************)
NCells == GridWidth * GridHeight

\* C7: during one step every octopus flashes at most once: its n_flashes is
\* at most 1 above what it was when the step began
C7_FlashesOncePerStep ==
    \A o \in OctopusSet :
        n_flashes[o] = flashes_before[o] \/ n_flashes[o] = flashes_before[o] + 1

\* an octopus that has flashed in this step, was raised at least twice more
\* by flashing neighbours, and whose flash() has been called again
C7_Witness ==
    /\ o_pc = "pass" /\ passes = 1 /\ pass_k > 1
    /\ \E o \in OctopusSet :
          /\ flashed[o] /\ energy_level[o] >= 12
          /\ n_flashes[o] = flashes_before[o] + 1
          /\ \E k \in 1..(pass_k - 1) : Octopuses[k] = o

\* C8: the while loop of step ends: every pass but the last one flashes an
\* octopus, and at most (number of cells) passes come before the pass in
\* which no further octopus flashes
C8_PassesBounded ==
    /\ o_pc = "pass" => (passes <= NCells /\ n_flashes_changed)
    /\ o_pc = "reset" => (passes <= NCells + 1 /\ ~n_flashes_changed)
    /\ o_pc \in {"pass", "reset"} =>
          /\ Len(call_stack) <= CountFlashed(flashed)
          /\ CountFlashed(flashed) >= step_n_flashes
          /\ passes >= 1 => CountFlashed(flashed) = step_n_flashes

\* a step whose cascade has ended after a pass that flashed several octopuses
C8_Witness ==
    /\ o_pc = "reset" /\ passes = 2 /\ NCells = 100
    /\ CountFlashed(flashed) = NCells

\* C9: on the canonical octopuses part_one returns 1656 and part_two 195
C9_CanonicalOctopuses ==
    (o_input = CanonicalOctopuses /\ o_pc = "done") =>
        o_result = (IF o_part = "part_one" THEN 1656 ELSE 195)

C9_Witness ==
    /\ o_input = CanonicalOctopuses /\ o_pc = "done" /\ o_part = "part_two"
    /\ n_simulations = 195 /\ o_result = 195

\* C10: the search of part_two is bounded.  A search that stands, without
\* having found the step, on the grid it started from repeats the same steps
\* for ever, so a bounded search is never in that state
C10_SearchBounded ==
    ~ /\ o_part = "part_two" /\ o_pc = "idle" /\ n_simulations > 0 /\ ~found
      /\ energy_level = [o \in OctopusSet |-> o_input[o[2] + 1][o[1] + 1]]
      /\ \A o \in OctopusSet : ~flashed[o]

\* the octopus has flashed in the step that began last
FlashedThisStep(o) == n_flashes[o] = flashes_before[o] + 1

\* C24: after every step() every energy is in 0..9, every flashed flag is
\* False, and an octopus has energy 0 exactly if it flashed during that step
C24_StepLeavesDigits ==
    (o_pc \in {"idle", "done"} /\ n_simulations >= 1) =>
        \A o \in OctopusSet :
            /\ energy_level[o] \in 0..9
            /\ ~flashed[o]
            /\ energy_level[o] = 0 <=> FlashedThisStep(o)

\* a step after which one octopus has flashed and another, raised by it, has
\* not
C24_Witness ==
    /\ o_pc = "idle" /\ n_simulations >= 2
    /\ \E o \in OctopusSet : energy_level[o] = 0 /\ FlashedThisStep(o)
    /\ \E o \in OctopusSet : energy_level[o] >= 2 /\ ~FlashedThisStep(o)

\* the up to 8 cells of the grid adjacent to o
Adjacent(o) ==
    {n \in ((o[1] - 1)..(o[1] + 1)) \X ((o[2] - 1)..(o[2] + 1)) :
        /\ n # o
        /\ 0 <= n[1] /\ n[1] < GridWidth
        /\ 0 <= n[2] /\ n[2] < GridHeight}

\* the octopuses that flash in a step from the energies `before`, whatever
\* the order of the cascade: the least set F that holds every octopus whose
\* energy + 1 + number of adjacent members of F is above 9
RECURSIVE FlashSetFrom(_, _)
FlashSetFrom(before, F) ==
    LET G == {o \in OctopusSet : before[o] + 1 + Cardinality(Adjacent(o) \cap F) > 9}
    IN  IF G = F THEN F ELSE FlashSetFrom(before, G)

FlashSet(before) == FlashSetFrom(before, {})

\* C25: when the cascade of a step has ended, the flashed octopuses are those
\* that flash under every processing order, and every other octopus has its
\* previous energy + 1 + the number of its flashed adjacent octopuses
C25_CascadeOrderFree ==
    o_pc = "reset" =>
        /\ {o \in OctopusSet : flashed[o]} = FlashSet(energy_before)
        /\ \A o \in OctopusSet :
              ~flashed[o] => energy_level[o] = energy_before[o] + 1
                                + Cardinality({n \in Adjacent(o) : flashed[n]})

\* a cascade in which an octopus flashed only because a neighbour that comes
\* later in the grid had flashed, and a third was raised twice without
\* flashing
C25_Witness ==
    /\ o_pc = "reset"
    /\ \E o \in OctopusSet : \E n \in Adjacent(o) :
          /\ flashed[o] /\ flashed[n] /\ energy_before[o] < 9 /\ energy_before[n] = 9
          /\ (n[2] > o[2] \/ (n[2] = o[2] /\ n[1] > o[1]))
    /\ \E o \in OctopusSet :
          ~flashed[o] /\ energy_level[o] >= energy_before[o] + 3

(***************************************************************************)
(* day_14.py: Cave and Grain                                               *)
(***************************************************************************)
MaxRockSpread == 1
MaxRockY == 2
MaxPoints == 2
MaxExtraTicks == 2
MaxGrainRows == 2
MaxGrainCols == 3

\* the values of the cells of Cave.grid
AIR == 0
ROCK == 1
SAND == 2

\* source_position: tuple[int, int] = (500, 0)
SourceX == 500
SourceY == 0

\* grid[y, x] is an index of the array: as NormIndex, a negative index counts
\* from the end and anything else raises IndexError
CaveIndexOK(g, y, x) ==
    /\ -g.shape0 <= y /\ y < g.shape0
    /\ -g.shape1 <= x /\ x < g.shape1

CaveCell(g, y, x) == <<NormIndex(g.shape1, x), NormIndex(g.shape0, y)>>

\* grid[y, x]
CaveAt(g, y, x) ==
    IF CaveCell(g, y, x) \in g.sand THEN SAND
    ELSE IF CaveCell(g, y, x) \in g.rock THEN ROCK
    ELSE AIR

\* grid[y, x] = 1 and grid[y, x] = 2
CaveSetRock(g, y, x) ==
    [g EXCEPT !.rock = @ \cup {CaveCell(g, y, x)}, !.sand = @ \ {CaveCell(g, y, x)}]
CaveSetSand(g, y, x) ==
    [g EXCEPT !.sand = @ \cup {CaveCell(g, y, x)}, !.rock = @ \ {CaveCell(g, y, x)}]

Min2(a, b) == IF a <= b THEN a ELSE b
Max2(a, b) == IF a >= b THEN a ELSE b

\* draw_rocks for one (rock_source, rock_target)
DrawRock(g, rock_source, rock_target) ==
    IF rock_source[1] = rock_target[1]
    THEN [err |-> FALSE,
          grid |-> [g EXCEPT !.rock = @ \cup
                       {<<rock_source[1], vertical_position>> : vertical_position \in
                           Min2(rock_source[2], rock_target[2])..Max2(rock_source[2], rock_target[2])},
                    !.sand = @ \
                       {<<rock_source[1], vertical_position>> : vertical_position \in
                           Min2(rock_source[2], rock_target[2])..Max2(rock_source[2], rock_target[2])}]]
    ELSE IF rock_source[2] = rock_target[2]
    THEN [err |-> FALSE,
          grid |-> [g EXCEPT !.rock = @ \cup
                       {<<horizontal_position, rock_source[2]>> : horizontal_position \in
                           Min2(rock_source[1], rock_target[1])..Max2(rock_source[1], rock_target[1])},
                    !.sand = @ \
                       {<<horizontal_position, rock_source[2]>> : horizontal_position \in
                           Min2(rock_source[1], rock_target[1])..Max2(rock_source[1], rock_target[1])}]]
    ELSE [err |-> TRUE, grid |-> g]

\* draw_rocks: the rocks from index i on
RECURSIVE DrawRocks(_, _, _)
DrawRocks(g, rocks, i) ==
    IF i > Len(rocks) THEN [err |-> FALSE, grid |-> g]
    ELSE LET d == DrawRock(g, rocks[i][1], rocks[i][2])
         IN  IF d.err THEN d ELSE DrawRocks(d.grid, rocks, i + 1)

\* itertools.pairwise(points)
Pairwise(points) ==
    IF Len(points) < 2 THEN <<>>
    ELSE [i \in 1..(Len(points) - 1) |-> <<points[i], points[i + 1]>>]

\* from_text lines 121-132: the rocks of all lines, in order
RECURSIVE RocksOf(_, _)
RocksOf(lines, k) ==
    IF k > Len(lines) THEN <<>>
    ELSE Pairwise(lines[k]) \o RocksOf(lines, k + 1)

RECURSIVE MaxOver(_, _, _)
MaxOver(rocks, c, i) ==
    IF i > Len(rocks) THEN 0
    ELSE Max2(Max2(rocks[i][1][c], rocks[i][2][c]), MaxOver(rocks, c, i + 1))

\* Cave.__init__
NewCave(width, height, rocks) ==
    DrawRocks([shape0 |-> height + 2, shape1 |-> width * 2 + 1, rock |-> {}, sand |-> {}],
              rocks, 1)

\* Cave.from_text
CaveFromText(lines) ==
    NewCave(MaxOver(RocksOf(lines, 1), 1, 1), MaxOver(RocksOf(lines, 1), 2, 1),
            RocksOf(lines, 1))

\* part_two lines 217-227: np.pad(cave.grid, (0, 1)) adds one row below and
\* one column to the right, and the floor is drawn over the whole last row
AddFloor(g) ==
    DrawRocks([g EXCEPT !.shape0 = @ + 1, !.shape1 = @ + 1],
              << << <<0, g.shape0>>, <<g.shape1, g.shape0>> >> >>, 1)

\* the pass trying the right side before the left
FallMove_RightFirst(g, x, y) ==
    IF y + 1 < g.shape0
    THEN IF ~CaveIndexOK(g, y + 1, x)
         THEN [err |-> TRUE, moved |-> FALSE, x |-> x, y |-> y]
         ELSE IF CaveAt(g, y + 1, x) = AIR
         THEN [err |-> FALSE, moved |-> TRUE, x |-> x, y |-> y + 1]
         ELSE IF x + 1 < g.shape1 /\ CaveAt(g, y + 1, x + 1) = AIR
         THEN [err |-> FALSE, moved |-> TRUE, x |-> x + 1, y |-> y + 1]
         ELSE IF x - 1 > 0 /\ CaveAt(g, y + 1, x - 1) = AIR
         THEN [err |-> FALSE, moved |-> TRUE, x |-> x - 1, y |-> y + 1]
         ELSE [err |-> FALSE, moved |-> FALSE, x |-> x, y |-> y]
    ELSE [err |-> FALSE, moved |-> FALSE, x |-> x, y |-> y]

\* one pass of the loop of Grain.fall, lines 159-188, on the grain at (x, y):
\* `and` evaluates grid[y + 1, x] only when y + 1 is a row of the grid
FallMove(g, x, y) ==
    IF y + 1 < g.shape0
    THEN IF ~CaveIndexOK(g, y + 1, x)
         THEN [err |-> TRUE, moved |-> FALSE, x |-> x, y |-> y]
         ELSE IF CaveAt(g, y + 1, x) = AIR
         THEN [err |-> FALSE, moved |-> TRUE, x |-> x, y |-> y + 1]
         ELSE IF x - 1 > 0 /\ CaveAt(g, y + 1, x - 1) = AIR
         THEN [err |-> FALSE, moved |-> TRUE, x |-> x - 1, y |-> y + 1]
         ELSE IF x + 1 < g.shape1 /\ CaveAt(g, y + 1, x + 1) = AIR
         THEN [err |-> FALSE, moved |-> TRUE, x |-> x + 1, y |-> y + 1]
         ELSE [err |-> FALSE, moved |-> FALSE, x |-> x, y |-> y]
    ELSE [err |-> FALSE, moved |-> FALSE, x |-> x, y |-> y]

\* Grain.fall: `while True` until a pass does not move the grain; m is the
\* one pass of this level
RECURSIVE Fall(_, _, _)
Fall(g, x, y) ==
    CHOOSE r \in {IF m.err \/ ~m.moved THEN m ELSE Fall(g, m.x, m.y) :
                     m \in {FallMove(g, x, y)}} : TRUE

\* tick line 65: not all(grid[-1, :] == 0) and not all(grid[-1, :] == 1)
BottomTouched(g) ==
    \E grid \in {g} :
        LET sandBottom == {c \in grid.sand : c[2] = grid.shape0 - 1}
            rockBottom == {c \in grid.rock : c[2] = grid.shape0 - 1}
        IN  /\ ~(sandBottom = {} /\ rockBottom = {})
            /\ ~(sandBottom = {} /\ Cardinality(rockBottom) = grid.shape1)

\* tick counting the grain that came to rest on the source
TicksAfter_CountsBlocked(ticks, atSource, overflow) ==
    IF overflow THEN ticks ELSE ticks + 1

\* tick raising the clock before it looks at the bottom row
TicksAfter_CountsOverflow(ticks, atSource, overflow) ==
    IF atSource THEN ticks ELSE ticks + 1

\* tick lines 58-70: the clock is raised only on the way to `return False`
TicksAfter(ticks, atSource, overflow) ==
    IF atSource \/ overflow THEN ticks ELSE ticks + 1

\* tick returning True for a grain in the bottom row only
TickResult_IgnoresBlocked(g, source, ticks) ==
    CHOOSE t \in {
        LET atSource == <<f.x, f.y>> = source
            drawn == IF atSource THEN g ELSE CaveSetSand(g, f.y, f.x)
            overflow == ~atSource /\ BottomTouched(drawn)
        IN  IF f.err
            THEN [err |-> TRUE, ret |-> FALSE, grid |-> g, ticks |-> ticks, grain |-> <<>>]
            ELSE [err |-> FALSE, ret |-> overflow, grid |-> drawn,
                  ticks |-> TicksAfter(ticks, atSource, overflow), grain |-> <<f.x, f.y>>]
        : f \in {Fall(g, source[1], source[2])}} : TRUE

\* tick drawing the grain before it compares it with the source
TickResult_DrawsBlocked(g, source, ticks) ==
    CHOOSE t \in {
        LET atSource == <<f.x, f.y>> = source
            drawn == CaveSetSand(g, f.y, f.x)
            overflow == ~atSource /\ BottomTouched(drawn)
        IN  IF f.err
            THEN [err |-> TRUE, ret |-> FALSE, grid |-> g, ticks |-> ticks, grain |-> <<>>]
            ELSE [err |-> FALSE, ret |-> atSource \/ overflow, grid |-> drawn,
                  ticks |-> TicksAfter(ticks, atSource, overflow), grain |-> <<f.x, f.y>>]
        : f \in {Fall(g, source[1], source[2])}} : TRUE

\* Cave.tick
TickResult(g, source, ticks) ==
    CHOOSE t \in {
        LET atSource == <<f.x, f.y>> = source
            drawn == IF atSource THEN g ELSE CaveSetSand(g, f.y, f.x)
            overflow == ~atSource /\ BottomTouched(drawn)
        IN  IF f.err
            THEN [err |-> TRUE, ret |-> FALSE, grid |-> g, ticks |-> ticks, grain |-> <<>>]
            ELSE [err |-> FALSE, ret |-> atSource \/ overflow, grid |-> drawn,
                  ticks |-> TicksAfter(ticks, atSource, overflow), grain |-> <<f.x, f.y>>]
        : f \in {Fall(g, source[1], source[2])}} : TRUE

\* an upper bound of the grains a cave can hold
GrainBound(g) == g.shape0 * g.shape1

\* the loop of part_one / part_two, lines 201-204 and 231-234: one call of
\* tick(); after a tick() that returned True, a caller's further tick() on the
\* same cave
Tick ==
    /\ \/ c_pc = "loop" /\ c_ticks <= GrainBound(c_grid)
       \/ c_pc = "overflow" /\ c_extra < MaxExtraTicks
    /\ \E t \in {TickResult(c_grid, c_source, c_ticks)} :
           /\ c_pc' = IF t.err THEN "error" ELSE IF t.ret THEN "overflow" ELSE "loop"
           /\ c_last' = IF t.err THEN c_last ELSE IF t.ret THEN "True" ELSE "False"
           /\ c_grid' = t.grid
           /\ c_ticks' = t.ticks
           /\ c_grain' = t.grain
    /\ c_ticks_before' = c_ticks
    /\ c_extra' = IF c_pc = "overflow" THEN c_extra + 1 ELSE c_extra
    /\ UNCHANGED <<c_part, c_input, c_source, c_prev, c_result>>
    /\ UNCHANGED others14

\* part_one line 207
CavePartOneResult(ticks) == ticks

\* part_two line 237
CavePartTwoResult(ticks) == ticks + 1

\* part_one / part_two: `break` and return
CavePartReturn ==
    /\ c_pc = "overflow"
    /\ c_extra = 0
    /\ c_pc' = "done"
    /\ c_result' = IF c_part = "part_one" THEN CavePartOneResult(c_ticks)
                   ELSE CavePartTwoResult(c_ticks)
    /\ UNCHANGED <<c_part, c_input, c_grid, c_source, c_ticks, c_ticks_before,
                   c_last, c_grain, c_prev, c_extra>>
    /\ UNCHANGED others14

\* one pass of the loop of Grain.fall of a lone grain
FallStep ==
    /\ c_pc = "falling"
    /\ LET m == FallMove(c_grid, c_grain[1], c_grain[2])
       IN  /\ c_pc' = IF m.err THEN "error" ELSE IF m.moved THEN "falling" ELSE "rest"
           /\ c_grain' = <<m.x, m.y>>
           /\ c_prev' = IF m.moved THEN c_grain ELSE c_prev
    /\ UNCHANGED <<c_part, c_input, c_grid, c_source, c_ticks, c_ticks_before,
                   c_last, c_extra, c_result>>
    /\ UNCHANGED others14

(***************************************************************************)
(* Inputs of day_14.py                                                     *)
(***************************************************************************)
\* "498,4 -> 498,6 -> 496,6" and "503,4 -> 502,4 -> 502,9 -> 494,9"
CanonicalCave ==
    << << <<498, 4>>, <<498, 6>>, <<496, 6>> >>,
       << <<503, 4>>, <<502, 4>>, <<502, 9>>, <<494, 9>> >> >>

\* "1,1 -> 3,1": a cave that lies to the left of the source
LeftCave == << << <<1, 1>>, <<3, 1>> >> >>

RockPoints == ((SourceX - MaxRockSpread)..(SourceX + MaxRockSpread)) \X (0..MaxRockY)

\* the paths of n points of RockPoints whose segments are horizontal or vertical
RECURSIVE RockPaths(_)
RockPaths(n) ==
    IF n = 1 THEN {<<p>> : p \in RockPoints}
    ELSE UNION {{Append(path, p) :
                    p \in {q \in RockPoints : q[1] = path[n - 1][1] \/ q[2] = path[n - 1][2]}} :
                path \in RockPaths(n - 1)}

\* the canonical cave, the cave left of the source, the empty text, and every
\* text of one line of at most MaxPoints points around the source
CaveInputs ==
    {CanonicalCave, LeftCave, <<>>} \cup
    UNION {{<<path>> : path \in RockPaths(n)} : n \in 1..MaxPoints}

\* part_one lines 197, part_two lines 213-227
InitCave ==
    /\ c_part \in {"part_one", "part_two"}
    /\ c_input \in CaveInputs
    /\ c_grid = IF c_part = "part_one" THEN CaveFromText(c_input).grid
                ELSE AddFloor(CaveFromText(c_input).grid).grid
    /\ c_source = <<SourceX, SourceY>>
    /\ c_ticks = 0
    /\ c_ticks_before = 0
    /\ c_pc = "loop"
    /\ c_last = "none"
    /\ c_grain = <<>>
    /\ c_prev = <<>>
    /\ c_extra = 0
    /\ c_result = 0
    /\ Idle24 /\ Idle11 /\ Idle23 /\ Idle18 /\ Idle25 /\ Idle9 /\ Idle6

NextCave == Tick \/ CavePartReturn

SpecCave == InitCave /\ [][NextCave]_vars

\* a Grain anywhere in a cave of at most MaxGrainRows x MaxGrainCols cells,
\* any of them rock
InitGrain ==
    /\ c_part = "fall"
    /\ c_input = <<>>
    /\ \E rows \in 1..MaxGrainRows, cols \in 1..MaxGrainCols :
          /\ \E rock \in SUBSET ((0..(cols - 1)) \X (0..(rows - 1))) :
                c_grid = [shape0 |-> rows, shape1 |-> cols, rock |-> rock, sand |-> {}]
          /\ c_grain \in (0..(cols - 1)) \X (0..(rows - 1))
    /\ c_source = c_grain
    /\ c_ticks = 0
    /\ c_ticks_before = 0
    /\ c_pc = "falling"
    /\ c_last = "none"
    /\ c_prev = <<>>
    /\ c_extra = 0
    /\ c_result = 0
    /\ Idle24 /\ Idle11 /\ Idle23 /\ Idle18 /\ Idle25 /\ Idle9 /\ Idle6

NextGrain == FallStep

SpecGrain == InitGrain /\ [][NextGrain]_vars

\* the caves and the lone grains together; the loops `while True` of
\* part_one, part_two and Grain.fall run on as long as they can
InitSand == InitCave \/ InitGrain

NextSand == Tick \/ CavePartReturn \/ FallStep

SpecSand == InitSand /\ [][NextSand]_vars /\ WF_vars(NextSand)

(***************************************************************************)
(* Properties of day_14.py                                                 *)
(***************************************************************************)
FloorLess == c_part = "part_one"

\* the grain of the last tick could not move away from the source
GrainOnSource == c_grain = c_source

\* the grain of the last tick came to rest in the last row of the grid
GrainInBottomRow == c_grain # <<>> /\ c_grain[2] = c_grid.shape0 - 1

\* C11: tick() raises no exception, and up to the first True it returns True
\* exactly for a grain that stays on the source or, without a floor, comes to
\* rest in the extra bottom row
C11_TickEndConditions ==
    c_part \in {"part_one", "part_two"} =>
        /\ c_pc # "error"
        /\ (c_last = "True" /\ c_extra = 0) =>
              (GrainOnSource \/ (FloorLess /\ GrainInBottomRow))
        /\ c_last = "False" =>
              (~GrainOnSource /\ ~(FloorLess /\ GrainInBottomRow))

\* C12: until tick() has returned True, ticks is the number of sand cells; a
\* tick() that returns False raises ticks by 1, one that returns True leaves it
C12_TicksCountSettledGrains ==
    c_part \in {"part_one", "part_two"} =>
        /\ c_pc = "loop" => c_ticks = Cardinality(c_grid.sand)
        /\ c_last = "False" => c_ticks = c_ticks_before + 1
        /\ c_last = "True" => c_ticks = c_ticks_before

\* the tick() that returned True has drawn a grain that it did not count
C12_Witness ==
    /\ c_part = "part_one" /\ c_pc = "overflow" /\ c_extra = 0 /\ c_last = "True"
    /\ c_ticks >= 2 /\ Cardinality(c_grid.sand) = c_ticks + 1

InsideCave(g, cell) ==
    /\ 0 <= cell[1] /\ cell[1] < g.shape1
    /\ 0 <= cell[2] /\ cell[2] < g.shape0

\* below, below-left, below-right of the cell
Candidates(cell) ==
    <<(<<cell[1], cell[2] + 1>>), (<<cell[1] - 1, cell[2] + 1>>), (<<cell[1] + 1, cell[2] + 1>>)>>

\* the candidates that are inside the grid and empty, in their order
OpenCandidates(g, cell) ==
    SelectSeq(Candidates(cell),
              LAMBDA c : InsideCave(g, c) /\ c \notin g.rock /\ c \notin g.sand)

\* C13: every move of Grain.fall goes to the first of below, below-left,
\* below-right that is inside the grid and empty, and the grain rests only
\* where none of the three is
C13_FallTakesFirstCandidate ==
    c_part = "fall" =>
        /\ c_pc # "error"
        /\ c_prev # <<>> =>
              /\ OpenCandidates(c_grid, c_prev) # <<>>
              /\ c_grain = Head(OpenCandidates(c_grid, c_prev))
        /\ c_pc = "rest" => OpenCandidates(c_grid, c_grain) = <<>>

\* C14: every tick() after one that returned True returns True and leaves
\* ticks as it was
C14_OverflowIsFinal ==
    c_extra > 0 =>
        /\ c_pc = "overflow"
        /\ c_last = "True"
        /\ c_ticks = c_ticks_before

\* two further ticks, each of which has drawn its grain
C14_Witness ==
    /\ c_part = "part_one" /\ c_extra = 2 /\ c_last = "True"
    /\ c_ticks >= 1 /\ Cardinality(c_grid.sand) = c_ticks + 3

\* C15: on the canonical cave part_one returns 24 and part_two returns 93
C15_CanonicalCave ==
    (c_input = CanonicalCave /\ c_pc = "done") =>
        c_result = (IF c_part = "part_one" THEN 24 ELSE 93)

C15_Witness ==
    /\ c_input = CanonicalCave /\ c_pc = "done" /\ c_part = "part_two"
    /\ c_grain = c_source /\ Cardinality(c_grid.sand) = 92 /\ c_result = 93

\* C22: a tick() changes at most one cell of the grid, and that cell from
\* empty to sand: the shape and the rock stay, no settled sand is lost, the
\* new sand cell was neither rock nor sand, and the source never holds sand
C22_TickDrawsOneGrain ==
    [][(c_part \in {"part_one", "part_two"}) =>
          /\ c_source \notin c_grid'.sand
          /\ c_grid' # c_grid =>
                /\ c_grid'.shape0 = c_grid.shape0 /\ c_grid'.shape1 = c_grid.shape1
                /\ c_grid'.rock = c_grid.rock
                /\ \E cell \in c_grid'.sand :
                      /\ cell \notin c_grid.sand /\ cell \notin c_grid.rock
                      /\ c_grid'.sand = c_grid.sand \cup {cell}]_vars

\* a grain has been drawn next to settled sand, above the floor of rock, and
\* a later tick() has left its grain on the source, undrawn
C22_Witness ==
    /\ c_part = "part_two" /\ c_last = "True" /\ c_grain = c_source
    /\ Cardinality(c_grid.sand) >= 3 /\ c_grid.rock # {}
    /\ c_source \notin c_grid.sand

\* the source is a cell of the grid
SourceInside ==
    /\ 0 <= c_source[1] /\ c_source[1] < c_grid.shape1
    /\ 0 <= c_source[2] /\ c_source[2] < c_grid.shape0

\* C23: every lone grain comes to rest, and in every cave whose source lies
\* inside the grid some tick() of the loop of part_one / part_two returns True
C23_FallAndLoopsTerminate ==
    /\ (c_part = "fall") => <>(c_pc = "rest")
    /\ (c_part \in {"part_one", "part_two"} /\ SourceInside) => <>(c_last = "True")

\* part_two of a cave other than the canonical one has returned after its
\* grains piled up to the source
C23_Witness ==
    /\ c_part = "part_two" /\ c_pc = "done" /\ c_input # CanonicalCave
    /\ SourceInside /\ c_grain = c_source /\ c_result >= 4

(***************************************************************************)
(* day_23.py: Elf and Ground                                               *)
(***************************************************************************)
MaxGroundWidth == 2
MaxGroundHeight == 2
MaxRoundLimit == 2
MaxRoundsRun == 25

\* part_one: ground.simulate(rounds=10)
PartOneRounds == 10

\* rounds: int = sys.maxsize, as the largest number of the model
SysMaxsize == 2147483647

\* RelativePosition, in the order of the Enum
RelativePosition ==
    [NW |-> Position(-1, -1), N |-> Position(0, -1), NE |-> Position(1, -1),
     E |-> Position(1, 0), SE |-> Position(1, 1), S |-> Position(0, 1),
     SW |-> Position(-1, 1), W |-> Position(-1, 0)]

RelativePositions == {"NW", "N", "NE", "E", "SE", "S", "SW", "W"}

\* RelativePosition.to_absolute
ToAbsolute(r, p) == Position(p.x + RelativePosition[r].x, p.y + RelativePosition[r].y)

\* the relative_positions of _consider_north, _south, _west, _east
Orientation ==
    [north |-> <<"NW", "N", "NE">>, south |-> <<"SW", "S", "SE">>,
     west |-> <<"NW", "W", "SW">>, east |-> <<"NE", "E", "SE">>]

\* Elf.__init__; None is <<>>, and an elf is named by its index in Ground.elves
NewElf(p) ==
    [position |-> p, considered_position |-> <<>>,
     consideration_order |-> <<"north", "south", "west", "east">>,
     elves_at |-> <<>>]

\* Ground.from_text: the elves of the cells from index k on, row by row
RECURSIVE ParseElves(_, _)
ParseElves(lines, k) ==
    LET w == Len(lines[1])
        py == k \div w
        px == k % w
    IN  IF Len(lines) = 0 \/ k >= w * Len(lines) THEN <<>>
        ELSE IF lines[py + 1][px + 1] = "#"
        THEN <<NewElf(Position(px, py))>> \o ParseElves(lines, k + 1)
        ELSE ParseElves(lines, k + 1)

\* get_elf_at_position without the cache: the first elf on p, 0 for None
ElfAtPosition(elves, p) ==
    IF \E i \in 1..Len(elves) : elves[i].position = p
    THEN CHOOSE i \in 1..Len(elves) :
            /\ elves[i].position = p
            /\ \A j \in 1..(i - 1) : elves[j].position # p
    ELSE 0

\* the positions in the cache
Cached(cache) == {cache[i][1] : i \in 1..Len(cache)}

\* the cached answer for p
CachedAnswer(cache, p) == cache[CHOOSE i \in 1..Len(cache) : cache[i][1] = p][2]

\* get_elf_at_position under functools.lru_cache: a cached answer is returned
\* as it is, any other is computed
GetElfAtPosition(cache, elves, p) ==
    IF p \in Cached(cache) THEN CachedAnswer(cache, p) ELSE ElfAtPosition(elves, p)

\* the cache after the lookup of p
RememberLookup(cache, elves, p) ==
    IF p \in Cached(cache) THEN cache ELSE Append(cache, <<p, ElfAtPosition(elves, p)>>)

\* _consider_orientation returning the first of its three cells
ConsiderOrientation_FirstCell(elves_at, p, relative_positions) ==
    IF \A i \in 1..Len(relative_positions) : elves_at[relative_positions[i]] = 0
    THEN <<ToAbsolute(relative_positions[1], p)>>
    ELSE <<>>

\* Elf._consider_orientation
ConsiderOrientation(elves_at, p, relative_positions) ==
    IF \A i \in 1..Len(relative_positions) : elves_at[relative_positions[i]] = 0
    THEN <<ToAbsolute(relative_positions[2], p)>>
    ELSE <<>>

\* consider_next_position lines 131-136: the first orientation of the order
\* that gives a position
RECURSIVE FirstConsidered(_, _, _, _)
FirstConsidered(elves_at, p, order, i) ==
    IF i > Len(order) THEN <<>>
    ELSE IF ConsiderOrientation(elves_at, p, Orientation[order[i]]) # <<>>
    THEN ConsiderOrientation(elves_at, p, Orientation[order[i]])
    ELSE FirstConsidered(elves_at, p, order, i + 1)

\* the order in which consider_next_position looks the neighbours up
LookupOrder == <<"NW", "N", "NE", "E", "SE", "S", "SW", "W">>

\* Elf.consider_next_position for the elf e under the cache
ConsiderNextPosition(cache, elves, e) ==
    LET elves_at == [r \in RelativePositions |->
                        GetElfAtPosition(cache, elves, ToAbsolute(r, elves[e].position))]
    IN  [elves[e] EXCEPT
            !.elves_at = elves_at,
            !.considered_position =
                IF \A r \in RelativePositions : elves_at[r] = 0 THEN <<>>
                ELSE FirstConsidered(elves_at, elves[e].position,
                                     elves[e].consideration_order, 1)]

\* the cache after the lookups of the elf e, from the i-th on
RECURSIVE CacheAfterElf(_, _, _, _)
CacheAfterElf(cache, elves, e, i) ==
    IF i > Len(LookupOrder) THEN cache
    ELSE CacheAfterElf(RememberLookup(cache, elves,
                                      ToAbsolute(LookupOrder[i], elves[e].position)),
                       elves, e, i + 1)

\* simulate lines 225-226: the first half, from the elf e on; no elf moves in
\* it, so every elf sees the positions that `elves` holds
RECURSIVE FirstHalf(_, _, _)
FirstHalf(cache, elves, e) ==
    IF e > Len(elves) THEN [cache |-> cache, elves |-> elves]
    ELSE FirstHalf(CacheAfterElf(cache, elves, e, 1),
                   [elves EXCEPT ![e] = ConsiderNextPosition(cache, elves, e)],
                   e + 1)

\* Elf.move without the look at the other elves' considered positions
Moves_IgnoresOthers(elves, e) ==
    /\ elves[e].considered_position # <<>>
    /\ elves[e].considered_position # <<elves[e].position>>

\* Elf.move of the elf e: whether it moves
Moves(elves, e) ==
    /\ elves[e].considered_position # <<>>
    /\ elves[e].considered_position # <<elves[e].position>>
    /\ ~\E o \in 1..Len(elves) :
          o # e /\ elves[o].considered_position = elves[e].considered_position

\* simulate line 229: every elf's move()
SecondHalf(elves) ==
    [e \in 1..Len(elves) |->
        IF Moves(elves, e)
        THEN [elves[e] EXCEPT !.position = elves[e].considered_position[1]]
        ELSE elves[e]]

\* the order of considering directions left as it is
RotateOrder_Kept(order) == order

\* simulate lines 234-235
RotateOrder(order) == Append(Tail(order), Head(order))

\* the cache kept over the end of a round
CacheClear_Kept(cache) == cache

\* simulate line 238: get_elf_at_position.cache_clear()
CacheClear(cache) == <<>>

\* simulate line 240
SimulateResult(round) == round + 1

\* simulate lines 221-226: the for loop takes the next round and runs its
\* first half
RoundConsider ==
    /\ g_pc = "for"
    /\ g_next < g_rounds
    /\ g_next < MaxRoundsRun
    /\ g_round' = <<g_next>>
    /\ g_next' = g_next + 1
    /\ LET h == FirstHalf(g_cache, g_elves, 1)
       IN  g_cache' = h.cache /\ g_elves' = h.elves
    /\ g_pc' = "second"
    /\ UNCHANGED <<g_part, g_input, g_rounds, g_moved, g_history, g_retval, g_result>>
    /\ UNCHANGED others23

\* simulate lines 228-238: the second half and the end of the round
RoundMove ==
    /\ g_pc = "second"
    /\ g_moved' = [e \in 1..Len(g_elves) |-> Moves(g_elves, e)]
    /\ g_history' = Append(g_history, \E e \in 1..Len(g_elves) : Moves(g_elves, e))
    /\ IF ~\E e \in 1..Len(g_elves) : Moves(g_elves, e)
       THEN /\ g_pc' = "return"
            /\ g_elves' = SecondHalf(g_elves)
            /\ UNCHANGED g_cache
       ELSE /\ g_pc' = "for"
            /\ g_elves' = [e \in 1..Len(g_elves) |->
                              [SecondHalf(g_elves)[e] EXCEPT
                                  !.consideration_order = RotateOrder(@)]]
            /\ g_cache' = CacheClear(g_cache)
    /\ UNCHANGED <<g_part, g_input, g_rounds, g_next, g_round, g_retval, g_result>>
    /\ UNCHANGED others23

\* simulate line 240, after `break` or after the last round of range(rounds);
\* `round` is unbound when range(rounds) was empty
SimulateReturn ==
    /\ \/ g_pc = "return"
       \/ g_pc = "for" /\ g_next >= g_rounds
    /\ IF g_round = <<>>
       THEN g_pc' = "error" /\ UNCHANGED g_retval
       ELSE g_pc' = "ret" /\ g_retval' = SimulateResult(g_round[1])
    /\ UNCHANGED <<g_part, g_input, g_elves, g_cache, g_rounds, g_next, g_round,
                   g_moved, g_history, g_result>>
    /\ UNCHANGED others23

\* Ground.smallest_rectangle and np.count_nonzero(... == 0)
EmptyTiles(elves) ==
    LET xs == {elves[e].position.x : e \in 1..Len(elves)}
        ys == {elves[e].position.y : e \in 1..Len(elves)}
        left == CHOOSE a \in xs : \A b \in xs : a <= b
        right == (CHOOSE a \in xs : \A b \in xs : a >= b) + 1
        top == CHOOSE a \in ys : \A b \in ys : a <= b
        bottom == (CHOOSE a \in ys : \A b \in ys : a >= b) + 1
    IN  (right - left) * (bottom - top)
        - Cardinality({elves[e].position : e \in 1..Len(elves)})

\* part_one lines 275-276 (min() of an empty list raises), part_two line 286
GroundPartReturn ==
    /\ g_pc = "ret"
    /\ IF g_part = "part_one" /\ Len(g_elves) = 0
       THEN g_pc' = "error" /\ UNCHANGED g_result
       ELSE /\ g_pc' = "done"
            /\ g_result' = IF g_part = "part_one" THEN EmptyTiles(g_elves) ELSE g_retval
    /\ UNCHANGED <<g_part, g_input, g_elves, g_cache, g_rounds, g_next, g_round,
                   g_moved, g_history, g_retval>>
    /\ UNCHANGED others23

(***************************************************************************)
(* Inputs of day_23.py                                                     *)
(***************************************************************************)
CanonicalGround ==
    << <<".", ".", ".", ".", "#", ".", ".">>,
       <<".", ".", "#", "#", "#", ".", "#">>,
       <<"#", ".", ".", ".", "#", ".", "#">>,
       <<".", "#", ".", ".", ".", "#", "#">>,
       <<"#", ".", "#", "#", "#", ".", ".">>,
       <<"#", "#", ".", "#", ".", "#", "#">>,
       <<".", "#", ".", ".", "#", ".", ".">> >>

\* the canonical ground and every text of at most MaxGroundHeight lines of at
\* most MaxGroundWidth characters
GroundInputs ==
    {CanonicalGround} \cup
    UNION {[1..h -> [1..w -> {".", "#"}]] : w \in 1..MaxGroundWidth, h \in 1..MaxGroundHeight}

\* part_one lines 269-272, part_two lines 282-285, or simulate(rounds) with
\* any limit up to MaxRoundLimit on a parsed ground
InitGround ==
    /\ g_part \in {"part_one", "part_two", "simulate"}
    /\ g_input \in GroundInputs
    /\ g_elves = ParseElves(g_input, 0)
    /\ g_cache = <<>>
    /\ g_rounds \in IF g_part = "part_one" THEN {PartOneRounds}
                    ELSE IF g_part = "part_two" THEN {SysMaxsize}
                    ELSE 0..MaxRoundLimit
    /\ g_next = 0
    /\ g_round = <<>>
    /\ g_moved = <<>>
    /\ g_history = <<>>
    /\ g_pc = "for"
    /\ g_retval = 0
    /\ g_result = 0
    /\ Idle24 /\ Idle11 /\ Idle14 /\ Idle18 /\ Idle25 /\ Idle9 /\ Idle6

NextGround == RoundConsider \/ RoundMove \/ SimulateReturn \/ GroundPartReturn

SpecGround == InitGround /\ [][NextGround]_vars

(***************************************************************************)
(* Properties of day_23.py                                                 *)
(***************************************************************************)
\* C16: simulate raises nothing; no round is run after one in which no elf
\* moved; the value returned is the number of rounds run, which is the number
\* of the first round without a move or else the limit `rounds`
C16_SimulateReturnsRound ==
    /\ ~(g_pc = "error" /\ g_history = <<>>)
    /\ \A i \in 1..(Len(g_history) - 1) : g_history[i]
    /\ g_pc \in {"ret", "done"} =>
          /\ g_retval = Len(g_history)
          /\ g_retval >= 1 => (~g_history[g_retval] \/ g_retval = g_rounds)

\* C17: every answer in the cache of get_elf_at_position is the elf that
\* stands on the position now, and so is every answer that the elves got in
\* the first half of the round
C17_CacheAnswersCurrent ==
    /\ \A i \in 1..Len(g_cache) :
          g_cache[i][2] = ElfAtPosition(g_elves, g_cache[i][1])
    /\ g_pc = "second" =>
          \A e \in 1..Len(g_elves) : \A r \in RelativePositions :
              g_elves[e].elves_at[r] =
                  ElfAtPosition(g_elves, ToAbsolute(r, g_elves[e].position))

\* the first half of a later round, after a round in which an elf moved next
\* to an elf that is still its neighbour
C17_Witness ==
    /\ g_pc = "second" /\ g_round # <<>> /\ g_round[1] >= 1
    /\ \E e \in 1..Len(g_elves) :
          /\ g_moved[e]
          /\ \E r \in RelativePositions : g_elves[e].elves_at[r] # 0

\* the number of '#' of the input
RECURSIVE CountElves(_, _)
CountElves(lines, k) ==
    IF k > Len(lines) THEN 0
    ELSE Cardinality({c \in 1..Len(lines[k]) : lines[k][c] = "#"}) + CountElves(lines, k + 1)

\* C26: at every point of simulate no two elves stand on the same position,
\* and the elves are as many as the input has '#'
C26_ElvesStayApart ==
    /\ Len(g_elves) = CountElves(g_input, 1)
    /\ \A e \in 1..Len(g_elves) : \A o \in 1..Len(g_elves) :
          e # o => g_elves[e].position # g_elves[o].position

\* a round in which two elves considered the same position and stayed, while
\* another elf moved
C26_Witness ==
    /\ g_pc = "for" /\ g_next >= 1
    /\ \E e \in 1..Len(g_elves) : \E o \in 1..Len(g_elves) :
          /\ e # o /\ g_elves[e].considered_position # <<>>
          /\ g_elves[e].considered_position = g_elves[o].considered_position
          /\ ~g_moved[e] /\ ~g_moved[o]
    /\ \E e \in 1..Len(g_elves) : g_moved[e]

\* the positions of the elves
Occupied == {g_elves[e].position : e \in 1..Len(g_elves)}

\* the eight cells around p
Around(p) == {Position(p.x + a, p.y + b) : a \in -1..1, b \in -1..1} \ {p}

\* one step in each direction
Side ==
    [north |-> Position(0, -1), south |-> Position(0, 1),
     west |-> Position(-1, 0), east |-> Position(1, 0)]

\* the three cells on the side d of p
ThreeCells(p, d) ==
    IF Side[d].x = 0
    THEN {Position(p.x + k, p.y + Side[d].y) : k \in -1..1}
    ELSE {Position(p.x + Side[d].x, p.y + k) : k \in -1..1}

\* the directions of the order of the elf e whose three cells are all free
FreeDirections(e) ==
    SelectSeq(g_elves[e].consideration_order,
              LAMBDA d : ThreeCells(g_elves[e].position, d) \cap Occupied = {})

\* the cell the elf e proposes, <<>> when it has no elf around it or no free
\* direction
Proposal(e) ==
    IF Around(g_elves[e].position) \cap Occupied = {} \/ FreeDirections(e) = <<>>
    THEN <<>>
    ELSE <<Position(g_elves[e].position.x + Side[Head(FreeDirections(e))].x,
                    g_elves[e].position.y + Side[Head(FreeDirections(e))].y)>>

\* where the elf e stands after the round
Expected(e) ==
    IF Proposal(e) # <<>> /\ \A o \in 1..Len(g_elves) : o # e => Proposal(o) # Proposal(e)
    THEN Proposal(e)[1]
    ELSE g_elves[e].position

\* C27: the second half of a round moves an elf exactly when it has an elf
\* around it, a direction of its order has its three cells free and no other
\* elf proposes the same cell, and then to the orthogonal neighbour of the
\* first such direction; every other elf stays
C27_RoundMovesElves ==
    [][g_pc = "second" =>
          \A e \in 1..Len(g_elves) : g_elves'[e].position = Expected(e)]_vars

\* after a round: an elf without neighbours stayed, an elf with an elf right
\* beside it moved to the cell it considered, and two elves with the same
\* proposal stayed
C27_Witness ==
    /\ g_pc = "for" /\ g_next >= 2
    /\ \E e \in 1..Len(g_elves) :
          /\ \A r \in RelativePositions : g_elves[e].elves_at[r] = 0
          /\ g_elves[e].considered_position = <<>> /\ ~g_moved[e]
    /\ \E e \in 1..Len(g_elves) :
          /\ g_moved[e] /\ g_elves[e].considered_position = <<g_elves[e].position>>
          /\ \E r \in {"N", "S", "W", "E"} : g_elves[e].elves_at[r] # 0
    /\ \E e \in 1..Len(g_elves) : \E o \in 1..Len(g_elves) :
          /\ e # o /\ ~g_moved[e] /\ g_elves[e].considered_position # <<>>
          /\ g_elves[e].considered_position = g_elves[o].considered_position

\* the number of rounds run so far in which an elf moved
RoundsMoved == Cardinality({i \in 1..Len(g_history) : g_history[i]})

\* the order north, south, west, east advanced n times
Advanced(n) ==
    [i \in 1..4 |-> <<"north", "south", "west", "east">>[((n + i - 1) % 4) + 1]]

\* C28: every elf has the order north, south, west, east advanced once for
\* every round in which an elf moved; in round r that is r - 1 times, every
\* round before r having moved an elf
C28_OrderAdvancesPerRound ==
    /\ \A e \in 1..Len(g_elves) : g_elves[e].consideration_order = Advanced(RoundsMoved)
    /\ g_pc = "second" => RoundsMoved = g_round[1]

\* the sixth round: the order has come round once and starts with south
C28_Witness ==
    /\ g_pc = "second" /\ g_round = <<5>> /\ Len(g_elves) >= 2
    /\ \A e \in 1..Len(g_elves) : Head(g_elves[e].consideration_order) = "south"
    /\ \E e \in 1..Len(g_elves) :
          g_elves[e].considered_position = <<Position(g_elves[e].position.x, g_elves[e].position.y + 1)>>

(***************************************************************************)
(* day_18.py: Lava                                                         *)
(***************************************************************************)
MaxCoordinate == 1
MaxLavaPoints == 2

\* Lava.from_text: max_x, max_y, max_z of the points (coordinate c), from 0
RECURSIVE MaxCoordinateOf(_, _, _)
MaxCoordinateOf(points, c, i) ==
    IF i > Len(points) THEN 0
    ELSE Max2(points[i][c], MaxCoordinateOf(points, c, i + 1))

\* Lava.from_text and Lava.__init__: np.zeros of max + 1 per axis, the points
\* set to LAVA
LavaFromText(points) ==
    [shape |-> <<MaxCoordinateOf(points, 1, 1) + 1, MaxCoordinateOf(points, 2, 1) + 1,
                 MaxCoordinateOf(points, 3, 1) + 1>>,
     lava |-> {points[i] : i \in 1..Len(points)}]

\* the relative_positions of contact_surface, in their order
LavaRelativePositions ==
    << <<-1, 0, 0>>, <<1, 0, 0>>, <<0, -1, 0>>, <<0, 1, 0>>, <<0, 0, -1>>, <<0, 0, 1>> >>

\* the k-th cell of np.ndindex(shape), counted from 0: the last axis runs
\* fastest
NdIndex(shape, k) ==
    <<k \div (shape[2] * shape[3]), (k \div shape[3]) % shape[2], k % shape[3]>>

\* grid[i, j, k] raises IndexError unless each index is in -n .. n-1
LavaIndexOK(shape, cell) ==
    \A a \in 1..3 : -shape[a] <= cell[a] /\ cell[a] < shape[a]

\* grid[i, j, k] == Content.LAVA; a negative index counts from the end
LavaAtIndex(g, cell) ==
    <<NormIndex(g.shape[1], cell[1]), NormIndex(g.shape[2], cell[2]),
      NormIndex(g.shape[3], cell[3])>> \in g.lava

\* contact_surface lines 143-150 for one cube and one relative position: 1
\* when the lookup gives AIR or raises, 0 when it gives LAVA
SideContact(g, cell, relative) ==
    LET looked == <<relative[1] + cell[1], relative[2] + cell[2], relative[3] + cell[3]>>
    IN  IF ~LavaIndexOK(g.shape, looked) THEN 1
        ELSE IF LavaAtIndex(g, looked) THEN 0 ELSE 1

RECURSIVE SidesFrom(_, _, _)
SidesFrom(g, cell, i) ==
    IF i > Len(LavaRelativePositions) THEN 0
    ELSE SideContact(g, cell, LavaRelativePositions[i]) + SidesFrom(g, cell, i + 1)

\* contact_surface lines 137-150: one cell of np.ndindex(grid.shape)
CountCell ==
    /\ l_pc = "count"
    /\ l_cursor < l_grid.shape[1] * l_grid.shape[2] * l_grid.shape[3]
    /\ l_total' = IF NdIndex(l_grid.shape, l_cursor) \in l_grid.lava
                  THEN l_total + SidesFrom(l_grid, NdIndex(l_grid.shape, l_cursor), 1)
                  ELSE l_total
    /\ l_cursor' = l_cursor + 1
    /\ UNCHANGED <<l_input, l_grid, l_pc, l_result>>
    /\ UNCHANGED others18

\* contact_surface line 152 and part_one line 190
LavaReturn ==
    /\ l_pc = "count"
    /\ l_cursor = l_grid.shape[1] * l_grid.shape[2] * l_grid.shape[3]
    /\ l_result' = l_total
    /\ l_pc' = "done"
    /\ UNCHANGED <<l_input, l_grid, l_cursor, l_total>>
    /\ UNCHANGED others18

(***************************************************************************)
(* Inputs of day_18.py                                                     *)
(***************************************************************************)
CanonicalLava ==
    << <<2, 2, 2>>, <<1, 2, 2>>, <<3, 2, 2>>, <<2, 1, 2>>, <<2, 3, 2>>, <<2, 2, 1>>,
       <<2, 2, 3>>, <<2, 2, 4>>, <<2, 2, 6>>, <<1, 2, 5>>, <<3, 2, 5>>, <<2, 1, 5>>,
       <<2, 3, 5>> >>

LavaPoints == (0..MaxCoordinate) \X (0..MaxCoordinate) \X (0..MaxCoordinate)

\* the canonical droplet and every text of at most MaxLavaPoints lines with
\* coordinates up to MaxCoordinate
LavaInputs ==
    {CanonicalLava} \cup UNION {[1..n -> LavaPoints] : n \in 0..MaxLavaPoints}

\* part_one lines 187-190: from_text, contact_surface() up to its count loop
InitLava ==
    /\ l_input \in LavaInputs
    /\ l_grid = LavaFromText(l_input)
    /\ l_cursor = 0
    /\ l_total = 0
    /\ l_pc = "count"
    /\ l_result = 0
    /\ Idle24 /\ Idle11 /\ Idle14 /\ Idle23 /\ Idle25 /\ Idle9 /\ Idle6

NextLava == CountCell \/ LavaReturn

SpecLava == InitLava /\ [][NextLava]_vars

(***************************************************************************)
(* Properties of day_18.py                                                 *)
(***************************************************************************)
\* the (lava cube, direction) pairs whose adjacent position holds no lava
\* cube, a position outside the grid holding none
OpenSides(g) ==
    {<<cell, i>> \in g.lava \X (1..Len(LavaRelativePositions)) :
        <<cell[1] + LavaRelativePositions[i][1], cell[2] + LavaRelativePositions[i][2],
          cell[3] + LavaRelativePositions[i][3]>> \notin g.lava}

\* C18: contact_surface() returns the number of (lava cube, direction) pairs
\* whose adjacent position holds no lava cube, every position outside the
\* grid counting as air
C18_ContactSurface ==
    l_pc = "done" => l_result = Cardinality(OpenSides(l_grid))

(***************************************************************************)
(* day_25.py: SNAFU                                                        *)
(***************************************************************************)
MaxSnafuLen == 3

\* SNAFU._mapping
SnafuMapping == [c \in {"2", "1", "0", "-", "="} |->
    IF c = "2" THEN 2 ELSE IF c = "1" THEN 1 ELSE IF c = "0" THEN 0
    ELSE IF c = "-" THEN -1 ELSE -2]

\* SNAFU._reverse_mapping
SnafuReverseMapping == [e \in -2..2 |->
    IF e = 2 THEN "2" ELSE IF e = 1 THEN "1" ELSE IF e = 0 THEN "0"
    ELSE IF e = -1 THEN "-" ELSE "="]

RECURSIVE Pow5(_)
Pow5(exponent) == IF exponent = 0 THEN 1 ELSE 5 * Pow5(exponent - 1)

\* SNAFU.decode: the sum of number * 5**position, the positions running from
\* len - 1 down to 0
RECURSIVE DecodeFrom(_, _)
DecodeFrom(number, i) ==
    IF i > Len(number) THEN 0
    ELSE SnafuMapping[number[i]] * Pow5(Len(number) - i) + DecodeFrom(number, i + 1)

Decode(number) == DecodeFrom(number, 1)

\* part_one line 90: the sum of the decoded lines
RECURSIVE SumDecoded(_, _)
SumDecoded(lines, i) ==
    IF i > Len(lines) THEN 0 ELSE Decode(lines[i]) + SumDecoded(lines, i + 1)

\* _to_base_5 and line 44: the base 5 digits of num, the empty list for 0
RECURSIVE ToBase5(_)
ToBase5(num) ==
    IF num = 0 THEN <<>> ELSE Append(ToBase5(num \div 5), num % 5)

\* the digit inserted for an element above 2 (line 59)
NegativeRemainder(element) == -((element % 2) + 1)

\* base_5_numbers[index - 1] += 1 (line 58): index - 1 = -1 is the last
\* element of the list
CarryInto(digits, index) ==
    LET at == NormIndex(Len(digits), index - 1) + 1
    IN  [digits EXCEPT ![at] = @ + 1]

\* part_one line 90 and SNAFU.encode lines 37-47: total, its base 5 digits and
\* the start of the loop
DecodeInput ==
    /\ s_pc = "decode"
    /\ s_total' = SumDecoded(s_input, 1)
    /\ s_base5' = ToBase5(SumDecoded(s_input, 1))
    /\ s_index' = Len(ToBase5(SumDecoded(s_input, 1))) - 1
    /\ s_snafu' = <<>>
    /\ s_pc' = "encode"
    /\ UNCHANGED <<s_input, s_result>>
    /\ UNCHANGED others25

\* SNAFU.encode lines 48-59: one pass of the loop, right to left
EncodeStep ==
    /\ s_pc = "encode"
    /\ s_index >= 0
    /\ LET element == s_base5[s_index + 1]
       IN  IF element <= 2
           THEN /\ s_snafu' = <<element>> \o s_snafu
                /\ s_base5' = s_base5
           ELSE /\ s_base5' = CarryInto(s_base5, s_index)
                /\ s_snafu' = <<NegativeRemainder(element)>> \o s_snafu
    /\ s_index' = s_index - 1
    /\ UNCHANGED <<s_input, s_total, s_pc, s_result>>
    /\ UNCHANGED others25

\* SNAFU.encode line 62 and part_one line 93
SnafuReturn ==
    /\ s_pc = "encode"
    /\ s_index < 0
    /\ s_result' = [i \in 1..Len(s_snafu) |-> SnafuReverseMapping[s_snafu[i]]]
    /\ s_pc' = "done"
    /\ UNCHANGED <<s_input, s_total, s_base5, s_index, s_snafu>>
    /\ UNCHANGED others25

(***************************************************************************)
(* Inputs of day_25.py                                                     *)
(***************************************************************************)
CanonicalSnafu ==
    << <<"1", "=", "-", "0", "-", "2">>, <<"1", "2", "1", "1", "1">>,
       <<"2", "=", "0", "=">>, <<"2", "1">>, <<"2", "=", "0", "1">>,
       <<"1", "1", "1">>, <<"2", "0", "0", "1", "2">>, <<"1", "1", "2">>,
       <<"1", "=", "-", "1", "=">>, <<"1", "-", "1", "2">>, <<"1", "2">>,
       <<"1", "=">>, <<"1", "2", "2">> >>

\* the lines of at most n characters
SnafuLines(n) == UNION {[1..k -> DOMAIN SnafuMapping] : k \in 0..n}

\* the canonical lines, every text of one line of at most MaxSnafuLen
\* characters and every text of two shorter lines; the total is never
\* negative
SnafuInputs ==
    {lines \in {CanonicalSnafu}
            \cup {<<a>> : a \in SnafuLines(MaxSnafuLen)}
            \cup {<<a, b>> : a \in SnafuLines(MaxSnafuLen - 1), b \in SnafuLines(MaxSnafuLen - 1)} :
        SumDecoded(lines, 1) >= 0}

InitSnafu ==
    /\ s_input \in SnafuInputs
    /\ s_total = 0
    /\ s_base5 = <<>>
    /\ s_index = 0
    /\ s_snafu = <<>>
    /\ s_pc = "decode"
    /\ s_result = <<>>
    /\ Idle24 /\ Idle11 /\ Idle14 /\ Idle23 /\ Idle18 /\ Idle9 /\ Idle6

NextSnafu == DecodeInput \/ EncodeStep \/ SnafuReturn

SpecSnafu == InitSnafu /\ [][NextSnafu]_vars

(***************************************************************************)
(* Properties of day_25.py                                                 *)
(***************************************************************************)
\* C19: the string part_one returns decodes to the sum of the decoded input
\* lines: decode(encode(n)) = n for every total n >= 0
C19_EncodeRoundTrips ==
    s_pc = "done" => Decode(s_result) = s_total

(***************************************************************************)
(* day_9.py: Cell and detect_basins                                        *)
(***************************************************************************)
MaxMapCells == 2

\* Cell.value of the cell <<x, y>>
CellValue(map, cell) == map[cell[2] + 1][cell[1] + 1]

\* Cell.get_neighbour: the cell on (x, y), <<>> for None
CellNeighbour(map, x, y) ==
    IF x < 0 \/ x > Len(map[1]) - 1 \/ y < 0 \/ y > Len(map) - 1
    THEN <<>>
    ELSE <<x, y>>

\* neighbour_left, neighbour_right, neighbour_top, neighbour_bottom
CellNeighbours(map, cell) ==
    <<CellNeighbour(map, cell[1] - 1, cell[2]), CellNeighbour(map, cell[1] + 1, cell[2]),
      CellNeighbour(map, cell[1], cell[2] - 1), CellNeighbour(map, cell[1], cell[2] + 1)>>

\* Cell.is_low_point
IsLowPoint(map, cell) ==
    \A n \in 1..4 :
        \/ CellNeighbours(map, cell)[n] = <<>>
        \/ CellValue(map, CellNeighbours(map, cell)[n]) > CellValue(map, cell)

\* itertools.chain.from_iterable(grid): the cells row by row
MapCells(map) ==
    [k \in 1..(Len(map) * Len(map[1])) |-> <<(k - 1) % Len(map[1]), (k - 1) \div Len(map[1])>>]

\* detect_basins lines 122-125
LowPoints(map) == SelectSeq(MapCells(map), LAMBDA cell : IsLowPoint(map, cell))

\* detect_basins lines 135-162 for one point: each of left, right, top, bottom
\* is appended when it is higher than the point, not yet in the basin and not 9
RECURSIVE AppendNeighbours(_, _, _, _)
AppendNeighbours(map, basin, point, n) ==
    IF n > 4 THEN basin
    ELSE LET neighbour == CellNeighbours(map, point)[n]
         IN  IF /\ neighbour # <<>>
                /\ CellValue(map, neighbour) > CellValue(map, point)
                /\ \A j \in 1..Len(basin) : basin[j] # neighbour
                /\ CellValue(map, neighbour) # 9
             THEN AppendNeighbours(map, Append(basin, neighbour), point, n + 1)
             ELSE AppendNeighbours(map, basin, point, n + 1)

\* detect_basins line 163
SizeChanged(len_basin, size) == len_basin = size

\* lines 130-131: the next item of basins.items()
NextLowPoint ==
    /\ h_pc = "items"
    /\ h_k <= Len(low_points)
    /\ size_changed' = TRUE
    /\ h_pc' = "while"
    /\ UNCHANGED <<h_input, low_points, basins, h_k, basin_size, h_i, h_result>>
    /\ UNCHANGED others9

\* lines 132-134: `while size_changed` holds and a pass over the basin begins
BasinPassBegin ==
    /\ h_pc = "while"
    /\ size_changed
    /\ basin_size' = Len(basins[h_k])
    /\ h_i' = 1
    /\ h_pc' = "for"
    /\ UNCHANGED <<h_input, low_points, basins, h_k, size_changed, h_result>>
    /\ UNCHANGED others9

\* lines 134-162: one point of `for point in basin`; the loop runs over the
\* list as it grows
BasinPassPoint ==
    /\ h_pc = "for"
    /\ h_i <= Len(basins[h_k])
    /\ basins' = [basins EXCEPT ![h_k] = AppendNeighbours(h_input, @, @[h_i], 1)]
    /\ h_i' = h_i + 1
    /\ UNCHANGED <<h_input, low_points, h_k, size_changed, basin_size, h_pc, h_result>>
    /\ UNCHANGED others9

\* line 163: the for loop is over
BasinPassEnd ==
    /\ h_pc = "for"
    /\ h_i > Len(basins[h_k])
    /\ size_changed' = SizeChanged(Len(basins[h_k]), basin_size)
    /\ h_pc' = "while"
    /\ UNCHANGED <<h_input, low_points, basins, h_k, basin_size, h_i, h_result>>
    /\ UNCHANGED others9

\* line 132: `while size_changed` fails, on to the next item
WhileEnd ==
    /\ h_pc = "while"
    /\ ~size_changed
    /\ h_k' = h_k + 1
    /\ h_pc' = "items"
    /\ UNCHANGED <<h_input, low_points, basins, size_changed, basin_size, h_i, h_result>>
    /\ UNCHANGED others9

\* line 165
DetectReturn ==
    /\ h_pc = "items"
    /\ h_k > Len(low_points)
    /\ h_result' = basins
    /\ h_pc' = "done"
    /\ UNCHANGED <<h_input, low_points, basins, h_k, size_changed, basin_size, h_i>>
    /\ UNCHANGED others9

(***************************************************************************)
(* Inputs of day_9.py                                                      *)
(***************************************************************************)
CanonicalHeights ==
    << <<2, 1, 9, 9, 9, 4, 3, 2, 1, 0>>,
       <<3, 9, 8, 7, 8, 9, 4, 9, 2, 1>>,
       <<9, 8, 5, 6, 7, 8, 9, 8, 9, 2>>,
       <<8, 7, 6, 7, 8, 9, 6, 7, 8, 9>>,
       <<9, 8, 9, 9, 9, 6, 5, 6, 7, 8>> >>

\* the canonical map and every map of digits of at most MaxMapCells cells
HeightInputs ==
    {CanonicalHeights} \cup
    UNION { [1..d[2] -> [1..d[1] -> 0..9]] :
              d \in {e \in (1..MaxMapCells) \X (1..MaxMapCells) : e[1] * e[2] <= MaxMapCells} }

\* detect_basins lines 115-129: the grid, the low points and one basin per low
\* point, holding the low point
InitBasins ==
    /\ h_input \in HeightInputs
    /\ low_points = LowPoints(h_input)
    /\ basins = [k \in 1..Len(LowPoints(h_input)) |-> <<LowPoints(h_input)[k]>>]
    /\ h_k = 1
    /\ size_changed = FALSE
    /\ basin_size = 0
    /\ h_i = 0
    /\ h_pc = "items"
    /\ h_result = <<>>
    /\ Idle24 /\ Idle11 /\ Idle14 /\ Idle23 /\ Idle18 /\ Idle25 /\ Idle6

NextBasins ==
    NextLowPoint \/ BasinPassBegin \/ BasinPassPoint \/ BasinPassEnd \/ WhileEnd \/ DetectReturn

\* detect_basins runs on as long as it has a next step
SpecBasins == InitBasins /\ [][NextBasins]_vars /\ WF_vars(NextBasins)

(***************************************************************************)
(* Properties of day_9.py                                                  *)
(***************************************************************************)
\* C29: detect_basins returns, and what it returns holds one basin per low
\* point
C29_DetectBasinsTerminates ==
    /\ <>(h_pc = "done")
    /\ [](h_pc = "done" => Len(h_result) = Len(low_points))

(***************************************************************************)
(* day_6.py: Lab.simulate_guard                                            *)
(***************************************************************************)
MaxLabWidth == 4
MaxLabHeight == 3
MaxLabObstacles == 3
MaxAdditional == 1

\* Direction
UP == "^"
RIGHT == ">"
DOWN == "v"
LEFT == "<"
MISSING == "X"

\* SimulationResult
OUT_OF_BOUNDS == "out_of_bounds"
SELF_LOOP == "self_loop"

\* next_direction_lookup
NextDirectionLookup(direction) ==
    CASE direction = UP -> RIGHT
      [] direction = RIGHT -> DOWN
      [] direction = DOWN -> LEFT
      [] direction = LEFT -> UP

\* Lab.__init__ lines 72-80: the cells holding "#", row by row, as
\* Position(x, y, MISSING)
StartingObstacles(lines) ==
    LET cells == [k \in 1..(Len(lines) * Len(lines[1])) |->
                     <<(k - 1) % Len(lines[1]), (k - 1) \div Len(lines[1]), MISSING>>]
    IN  SelectSeq(cells, LAMBDA c : lines[c[2] + 1][c[1] + 1] = "#")

\* Lab.__init__ lines 81-86: the last cell, row by row, that holds neither "."
\* nor "#"
StartingPosition(lines) ==
    LET marks == {k \in 1..(Len(lines) * Len(lines[1])) :
                     lines[((k - 1) \div Len(lines[1])) + 1][((k - 1) % Len(lines[1])) + 1]
                         \notin {".", "#"}}
        last == CHOOSE k \in marks : \A m \in marks : m <= k
    IN  <<(last - 1) % Len(lines[1]), (last - 1) \div Len(lines[1]),
          lines[((last - 1) \div Len(lines[1])) + 1][((last - 1) % Len(lines[1])) + 1]>>

\* Lab.reset lines 93-97: Map.obstacles
MapObstacles == StartingObstacles(lab_input) \o additional_obstacles

\* Map.width, Map.height
MapWidth == Len(lab_input[1])
MapHeight == Len(lab_input)

\* Guard.current_position
CurrentPosition(g) == <<g.x, g.y, g.direction>>

\* Lab._next_guard_position
NextGuardPosition(g) ==
    CASE g.direction = UP -> <<g.x, g.y - 1>>
      [] g.direction = DOWN -> <<g.x, g.y + 1>>
      [] g.direction = LEFT -> <<g.x - 1, g.y>>
      [] g.direction = RIGHT -> <<g.x + 1, g.y>>

\* simulate_guard lines 132-137
NextOutOfBounds(g) ==
    \/ NextGuardPosition(g)[1] < 0
    \/ NextGuardPosition(g)[1] >= MapWidth
    \/ NextGuardPosition(g)[2] < 0
    \/ NextGuardPosition(g)[2] >= MapHeight

\* simulate_guard lines 142-145
NextInPath(g) ==
    \E k \in 1..Len(g.path) :
        g.path[k] = <<NextGuardPosition(g)[1], NextGuardPosition(g)[2], g.direction>>

\* simulate_guard lines 149-152
NextBlocked(g) ==
    \E k \in 1..Len(MapObstacles) :
        MapObstacles[k] = <<NextGuardPosition(g)[1], NextGuardPosition(g)[2], MISSING>>

\* The path is kept up to this many entries. A run that returns appends at
\* most one entry for each of the 4 * width * height positions with a
\* direction and then at most three turns on the spot, so that only a run
\* that does not return gets this far; what is appended from there on is in
\* the path already
MaxPathLen == 4 * MaxLabWidth * MaxLabHeight + 5

\* guard.path.append(...)
PathAppend(guard_path, entry) ==
    IF Len(guard_path) < MaxPathLen THEN Append(guard_path, entry) ELSE guard_path

\* lines 129-138: the next position is off the map
GuardOutOfBounds ==
    /\ lab_pc = "loop"
    /\ NextOutOfBounds(guard)
    /\ lab_result' = OUT_OF_BOUNDS
    /\ lab_pc' = "done"
    /\ UNCHANGED <<lab_input, additional_obstacles, guard>>
    /\ UNCHANGED others6

\* lines 142-146: the next position with the guard's direction is in the path
GuardSelfLoop ==
    /\ lab_pc = "loop"
    /\ ~NextOutOfBounds(guard)
    /\ NextInPath(guard)
    /\ lab_result' = SELF_LOOP
    /\ lab_pc' = "done"
    /\ UNCHANGED <<lab_input, additional_obstacles, guard>>
    /\ UNCHANGED others6

\* lines 149-154: the next position holds an obstacle, the guard turns right
GuardTurn ==
    /\ lab_pc = "loop"
    /\ ~NextOutOfBounds(guard)
    /\ ~NextInPath(guard)
    /\ NextBlocked(guard)
    /\ guard' = [guard EXCEPT
                    !.direction = NextDirectionLookup(guard.direction),
                    !.path = PathAppend(@, <<guard.x, guard.y,
                                             NextDirectionLookup(guard.direction)>>)]
    /\ UNCHANGED <<lab_input, additional_obstacles, lab_pc, lab_result>>
    /\ UNCHANGED others6

\* lines 157-160: the guard moves
GuardMove ==
    /\ lab_pc = "loop"
    /\ ~NextOutOfBounds(guard)
    /\ ~NextInPath(guard)
    /\ ~NextBlocked(guard)
    /\ guard' = [guard EXCEPT
                    !.x = NextGuardPosition(guard)[1],
                    !.y = NextGuardPosition(guard)[2],
                    !.path = PathAppend(@, <<NextGuardPosition(guard)[1],
                                             NextGuardPosition(guard)[2], guard.direction>>)]
    /\ UNCHANGED <<lab_input, additional_obstacles, lab_pc, lab_result>>
    /\ UNCHANGED others6

(***************************************************************************)
(* Inputs of day_6.py                                                      *)
(***************************************************************************)
\* the map of w columns and h rows with the guard on cell `at` facing
\* `direction` and obstacles on the cells of `blocked`
LabLines(w, h, at, direction, blocked) ==
    [y \in 1..h |-> [x \in 1..w |->
        IF (y - 1) * w + x = at THEN direction
        ELSE IF ((y - 1) * w + x) \in blocked THEN "#" ELSE "."]]

\* every map of w columns and h rows with one guard and at most
\* MaxLabObstacles obstacles
LabInputs(w, h) ==
    UNION { { LabLines(w, h, at, direction, blocked) :
                direction \in {UP, RIGHT, DOWN, LEFT},
                blocked \in {b \in SUBSET ((1..(w * h)) \ {at}) :
                                Cardinality(b) <= MaxLabObstacles} } :
            at \in 1..(w * h) }

\* the lists of at most n additional obstacles on the map
RECURSIVE AdditionalLists(_, _)
AdditionalLists(lines, n) ==
    IF n = 0 THEN {<<>>}
    ELSE AdditionalLists(lines, n - 1) \cup
         { Append(l, <<x, y, MISSING>>) :
             l \in {m \in AdditionalLists(lines, n - 1) : Len(m) = n - 1},
             x \in 0..(Len(lines[1]) - 1), y \in 0..(Len(lines) - 1) }

\* Lab.__init__ and Lab.reset (line 124): the guard on the starting position,
\* the path holding that position
InitLab ==
    /\ \E w \in 1..MaxLabWidth, h \in 1..MaxLabHeight : lab_input \in LabInputs(w, h)
    /\ additional_obstacles \in AdditionalLists(lab_input, MaxAdditional)
    /\ guard = [x |-> StartingPosition(lab_input)[1],
                y |-> StartingPosition(lab_input)[2],
                direction |-> StartingPosition(lab_input)[3],
                path |-> <<StartingPosition(lab_input)>>]
    /\ lab_pc = "loop"
    /\ lab_result = "none"
    /\ Idle24 /\ Idle11 /\ Idle14 /\ Idle23 /\ Idle18 /\ Idle25 /\ Idle9

NextLab == GuardOutOfBounds \/ GuardSelfLoop \/ GuardTurn \/ GuardMove

\* simulate_guard runs on as long as it has a next step
SpecLab == InitLab /\ [][NextLab]_vars /\ WF_vars(NextLab)

(***************************************************************************)
(* Properties of day_6.py                                                  *)
(***************************************************************************)
\* C30: simulate_guard returns, and what it returns is OUT_OF_BOUNDS or
\* SELF_LOOP
C30_SimulateGuardTerminates ==
    /\ <>(lab_pc = "done")
    /\ [](lab_pc = "done" => lab_result \in {OUT_OF_BOUNDS, SELF_LOOP})

====
